---- MODULE Spec2Model ----
(***************************************************************************)
(* Regalyzer: registry forensics toolkit.  A model of the driver           *)
(* (regalyzer.py), of the control flow of every parser's run(), and of     *)
(* the decoders and correlators of regalyzer/utils.py and                  *)
(* regalyzer/parsers/*.py.                                                  *)
(*                                                                         *)
(* Conventions.  A byte string is a sequence of 0..255.  A text string     *)
(* that the code inspects character by character is a sequence of          *)
(* one-character strings.  A 32-bit unsigned integer is <<hi16, lo16>>     *)
(* and a 64-bit one <<w3, w2, w1, w0>> (16-bit limbs, most significant     *)
(* first), so that no value leaves the range of TLC's integers.            *)
(***************************************************************************)
EXTENDS Integers, Sequences, FiniteSets, TLC

VARIABLES
    img,                \* the forensic image under analysis (hive files and their content)
    pc,                 \* position of the code being run; "idle" when nothing is in progress
    idx,                \* main(): index into PARSERS of the next parser to invoke
    parsers_run_count,  \* main(): parsers_run_count
    outcomes,           \* main(): what each invoked module.run() did, in invocation order
    module,             \* a single module whose run() is invoked on its own
    result,             \* the outcome of that run()
    hive,               \* the registry subtree a correlation loop enumerates
    pos,                \* <<i, j>>: position of the (nested) for loops over hive
    usb_info_map,       \* storage_parser.run: usb_info_map, a dict in insertion order
    usb_table,          \* storage_parser.run: the rows added to usb_table
    profiles,           \* network_info_parser.run: profiles, a dict in insertion order
    history_table,      \* network_info_parser.run: the rows added to history_table
    has_history,        \* network_info_parser.run: has_history
    input,              \* the argument of a utility function called on its own
    output              \* what that call did

driverVars == <<idx, parsers_run_count, outcomes>>
runVars == <<module, result>>
storageVars == <<usb_info_map, usb_table>>
networkVars == <<profiles, history_table, has_history>>
loopVars == <<hive, pos>>
callVars == <<input, output>>

vars == <<img, pc, driverVars, runVars, loopVars, storageVars, networkVars, callVars>>

(***************************************************************************)
(* Bounds of the model.                                                    *)
(***************************************************************************)
MaxCS == 2          \* largest Select\Current number drawn
MaxMissing == 1     \* how many registry keys of an image may be missing at once
MaxUsers == 2       \* SAM account subkeys per image
MaxInstances == 1   \* instance subkeys below one Enum\USB VID/PID key
MaxSerials == 1     \* serial subkeys below one Enum\USBSTOR device class
MaxProfiles == 2    \* profile subkeys below NetworkList\Profiles
MaxSignatures == 2  \* signature subkeys below one NetworkList\Signatures namespace

(***************************************************************************)
(* Registry values as python-registry hands them to the code.              *)
(***************************************************************************)
Absent == [t |-> "absent", n |-> 0, s |-> "", b |-> <<>>]
Dword(n) == [t |-> "dword", n |-> n, s |-> "", b |-> <<>>]
Sz(s) == [t |-> "sz", n |-> 0, s |-> s, b |-> <<>>]
Binary(b) == [t |-> "binary", n |-> 0, s |-> "", b |-> b]
\* A REG_MULTI_SZ value (a list of str) and a datetime (a key's timestamp or a
\* REG_FILETIME value; b holds its microseconds since 1601-01-01 as four limbs).
MultiSz(l) == [t |-> "multi_sz", n |-> 0, s |-> "", b |-> l]
Datetime(us) == [t |-> "datetime", n |-> 0, s |-> "", b |-> us]

\* utils.get_value: the value's data, or the default when the key has no such value.
get_value(value, default) == IF value.t = "absent" THEN default ELSE value

\* The default of get_value's signature.
NotFound == Sz("Not Found")

\* cs_num == "N/A", the test the parsers make on the value read from Select\Current.
IsNA(v) == v.t = "sz" /\ v.s = "N/A"

(***************************************************************************)
(* f"{n:03d}": decimal digits, zero-padded to a width of at least three.   *)
(***************************************************************************)
RECURSIVE Digits(_)
Digits(n) == IF n < 10 THEN <<n>> ELSE Digits(n \div 10) \o <<n % 10>>

Fmt03d(n) ==
    LET d == Digits(n)
    IN  IF Len(d) >= 3 THEN d
        ELSE IF Len(d) = 2 THEN <<0>> \o d
        ELSE <<0, 0>> \o d

\* A key path of the SYSTEM hive below ControlSetNNN.
CSPath(seg, key) == [cs |-> seg, key |-> key]

(***************************************************************************)
(* Byte-level helpers: struct.unpack_from with "<H", "<I", "<Q".            *)
(***************************************************************************)
Byte == 0..255

\* struct.error: the buffer does not hold `size` bytes at `off` (0-based).
StructError(data, off, size) == off + size > Len(data)

LE16(data, off) == data[off + 1] + 256 * data[off + 2]
LE32(data, off) == <<LE16(data, off + 2), LE16(data, off)>>
LE64(data, off) == <<LE16(data, off + 6), LE16(data, off + 4), LE16(data, off + 2), LE16(data, off)>>

(***************************************************************************)
(* 64-bit arithmetic on limbs.                                             *)
(***************************************************************************)
Zero64 == <<0, 0, 0, 0>>
\* 0x7FFFFFFFFFFFFFFF, the "never" value of a FILETIME.
Never64 == <<32767, 65535, 65535, 65535>>

\* a <= b for two limb sequences of the same length (most significant first).
RECURSIVE LimbsLeq(_, _)
LimbsLeq(a, b) ==
    IF Len(a) = 0 THEN TRUE
    ELSE IF Head(a) < Head(b) THEN TRUE
    ELSE IF Head(a) > Head(b) THEN FALSE
    ELSE LimbsLeq(Tail(a), Tail(b))

\* Long division of a limb sequence by 10: [q |-> quotient limbs, r |-> remainder].
RECURSIVE DivMod10From(_, _)
DivMod10From(w, carry) ==
    IF Len(w) = 0 THEN [q |-> <<>>, r |-> carry]
    ELSE LET cur == carry * 65536 + Head(w)
             rest == DivMod10From(Tail(w), cur % 10)
         IN  [q |-> <<cur \div 10>> \o rest.q, r |-> rest.r]

DivMod10(w) == DivMod10From(w, 0)

\* (datetime.max - datetime(1601, 1, 1)) in microseconds = 265046774399999999
\* = 0x03ADA2A314F99FFF: the largest timedelta that datetime(1601,1,1) + td accepts.
MaxMicroseconds == <<941, 41635, 5369, 40959>>

(***************************************************************************)
(* utils.filetime_to_datetime (utils.py 19-26).                            *)
(* A datetime is modelled by its microseconds since 1601-01-01 UTC.        *)
(***************************************************************************)
DtNone == [k |-> "None", us |-> Zero64]
DtAt(us) == [k |-> "datetime", us |-> us]
DtRaise == [k |-> "raise", us |-> Zero64]

\* The exception classes format_filetime's except clause names (utils.py 100).
FormatFiletimeCaught == {"ValueError", "OSError"}

\* The exception classes the except clause of filetime_to_datetime catches.
FiletimeCaught == {"OverflowError"}

\* datetime(1601, 1, 1, tzinfo=utc) + timedelta(microseconds=filetime // 10):
\* the sum, or OverflowError ("date value out of range") past datetime.max.
EpochPlusMicroseconds(us) ==
    IF LimbsLeq(us, MaxMicroseconds)
    THEN [exc |-> "none", dt |-> DtAt(us)]
    ELSE [exc |-> "OverflowError", dt |-> DtNone]

\* try: return <sum> / except OverflowError: return None
FiletimeTry(sum) ==
    IF sum.exc = "none" THEN sum.dt
    ELSE IF sum.exc \in FiletimeCaught THEN DtNone
    ELSE DtRaise

filetime_to_datetime(filetime) ==
    IF filetime = Zero64 \/ filetime = Never64 THEN DtNone
    ELSE FiletimeTry(EpochPlusMicroseconds(DivMod10(filetime).q))

(***************************************************************************)
(* bytes.decode('utf-16-le', errors='replace'): a sequence of code points. *)
(***************************************************************************)
Replacement == 65533

IsHighSurrogate(u) == u >= 55296 /\ u <= 56319
IsLowSurrogate(u) == u >= 56320 /\ u <= 57343

\* The first character of b (at least two bytes long) whose first code unit is
\* u and whose second, if there is one, is v: [c |-> code point, used |-> bytes].
Utf16Char(n, u, v) ==
    IF IsLowSurrogate(u) THEN [c |-> Replacement, used |-> 2]
    ELSE IF ~IsHighSurrogate(u) THEN [c |-> u, used |-> 2]
    ELSE IF n < 4 THEN [c |-> Replacement, used |-> n]
    ELSE IF IsLowSurrogate(v)
    THEN [c |-> 65536 + (u - 55296) * 1024 + (v - 56320), used |-> 4]
    ELSE [c |-> Replacement, used |-> 2]

RECURSIVE DecodeUtf16(_)
Utf16Rest(b, ch) == <<ch.c>> \o DecodeUtf16(SubSeq(b, ch.used + 1, Len(b)))

DecodeUtf16(b) ==
    IF Len(b) = 0 THEN <<>>
    ELSE IF Len(b) = 1 THEN <<Replacement>>
    ELSE Utf16Rest(b, Utf16Char(Len(b), LE16(b, 0), IF Len(b) >= 4 THEN LE16(b, 2) ELSE 0))

(***************************************************************************)
(* utils.parse_v_string (utils.py 28-37).                                  *)
(***************************************************************************)
VBase == 204    \* 0xCC

StrNone == [none |-> TRUE, s |-> <<>>]
StrOf(s) == [none |-> FALSE, s |-> s]

Min(a, b) == IF a <= b THEN a ELSE b

\* v_data[offset : offset + length] for offset = off32 + 0xCC: a Python slice
\* clamps both ends to the buffer and never raises.
SliceV(v_data, off32, len32) ==
    LET n == Len(v_data)
        start == IF off32[1] # 0 THEN n ELSE Min(off32[2] + VBase, n)
        stop == IF off32[1] # 0 \/ len32[1] # 0 THEN n
                ELSE Min(off32[2] + VBase + len32[2], n)
    IN  SubSeq(v_data, start + 1, stop)

\* if length > 0: return v_data[offset : offset + length].decode(...)
VString(v_data, off32, len32) ==
    IF len32 # <<0, 0>>
    THEN StrOf(DecodeUtf16(SliceV(v_data, off32, len32)))
    ELSE StrNone

parse_v_string(v_data, offset_loc, len_loc) ==
    IF StructError(v_data, offset_loc, 4) \/ StructError(v_data, len_loc, 4)
    THEN StrNone                                   \* except (struct.error, IndexError)
    ELSE VString(v_data, LE32(v_data, offset_loc), LE32(v_data, len_loc))

(***************************************************************************)
(* Outcome of one module.run(console, image_root).                         *)
(*   ret      what the caller receives: "True", "False", "None" (the       *)
(*            function ran off its end) or "Raise" (an exception left it)  *)
(*   opened   the ControlSetNNN-scoped key paths run() asked the hive for  *)
(*   curReads how often run() read Select\Current                          *)
(*   reported run() got to the end of its report without an exception      *)
(***************************************************************************)
Outcome(ret, opened, curReads, reported) ==
    [ret |-> ret, opened |-> opened, curReads |-> curReads, reported |-> reported]

NoOutcome == Outcome("-", <<>>, 0, FALSE)

\* The body of a try block: the exception that left it ("none" if none did).
Body(exc, opened, curReads) == [exc |-> exc, opened |-> opened, curReads |-> curReads]

\* utils.print_error(message) (utils.py 14-17) takes exactly one argument:
\* a call that passes `console` as well raises TypeError.
print_error(nargs) == IF nargs = 1 THEN "none" ELSE "TypeError"

\* An exit path "print_error(...); return False" taken with `nargs` arguments.
ErrorExit(nargs, opened, curReads) ==
    IF print_error(nargs) = "none"
    THEN Outcome("False", opened, curReads, FALSE)
    ELSE Outcome("Raise", opened, curReads, FALSE)

\* try: body; return True / except Exception: print_error(...); return False
TryReturnTrue(body, nargs) ==
    IF body.exc = "none"
    THEN Outcome("True", body.opened, body.curReads, TRUE)
    ELSE ErrorExit(nargs, body.opened, body.curReads)

\* The registry key paths the parsers open (those of the SYSTEM hive below
\* ControlSetNNN).
K ==
    [CurrentVersion |-> "SOFTWARE\\Microsoft\\Windows NT\\CurrentVersion",
     ProfileList |-> "SOFTWARE\\Microsoft\\Windows NT\\CurrentVersion\\ProfileList",
     ComputerName |-> "Control\\ComputerName\\ComputerName",
     TimeZone |-> "Control\\TimeZoneInformation",
     TcpipParams |-> "Services\\Tcpip\\Parameters",
     NetClass |-> "Control\\Class\\{4d36e972-e325-11ce-bfc1-08002be10318}",
     SamUsers |-> "SAM\\Domains\\Account\\Users",
     Interfaces |-> "Services\\Tcpip\\Parameters\\Interfaces",
     EnumUSB |-> "Enum\\USB",
     EnumSCSI |-> "Enum\\SCSI",
     EnumUSBSTOR |-> "Enum\\USBSTOR",
     Bam |-> "Services\\bam\\State\\UserSettings",
     Environment |-> "Control\\Session Manager\\Environment"]

\* The keys the parsers open without a RegistryKeyNotFoundException handler of
\* their own.
RequiredKeys == {K.CurrentVersion, K.ProfileList, K.ComputerName, K.TimeZone,
                 K.TcpipParams, K.NetClass, K.SamUsers}

(***************************************************************************)
(* The control-set resolution shared by network, storage, BAM and          *)
(* environment parsers:                                                    *)
(*     select_key = reg_system.open("Select")                              *)
(*     cs_num = get_value(select_key, "Current")                           *)
(*     if cs_num == "N/A": raise ValueError(...)                           *)
(*     path = f"ControlSet{cs_num:03d}\\..."                               *)
(* [exc, seg, curReads]: seg is the path segment after "ControlSet".       *)
(***************************************************************************)
ControlSetOf(cs_num) ==
    IF IsNA(cs_num)
    THEN [exc |-> "ValueError", seg |-> <<>>, curReads |-> 1]
    ELSE IF cs_num.t # "dword"      \* format code 'd' on a str
    THEN [exc |-> "ValueError", seg |-> <<>>, curReads |-> 1]
    ELSE [exc |-> "none", seg |-> Fmt03d(cs_num.n), curReads |-> 1]

ResolveControlSet(im) ==
    IF ~im.selectKey
    THEN [exc |-> "RegistryKeyNotFoundException", seg |-> <<>>, curReads |-> 0]
    ELSE ControlSetOf(get_value(im.current, NotFound))

(***************************************************************************)
(* os_info_parser.run (os_info_parser.py 17-133).                          *)
(***************************************************************************)
\* The SYSTEM part below "if current_control_set_num > 0" (76-103).
os_info_control_set(im, seg) ==
    IF K.ComputerName \in im.missing
    THEN Body("RegistryKeyNotFoundException", <<CSPath(seg, K.ComputerName)>>, 1)
    ELSE IF K.TimeZone \in im.missing
    THEN Body("RegistryKeyNotFoundException",
              <<CSPath(seg, K.ComputerName), CSPath(seg, K.TimeZone)>>, 1)
    ELSE Body("none", <<CSPath(seg, K.ComputerName), CSPath(seg, K.TimeZone)>>, 1)

os_info_system(im, current_control_set_num) ==
    IF current_control_set_num.t # "dword"
    THEN Body("TypeError", <<>>, 1)           \* str > 0
    ELSE IF ~(current_control_set_num.n > 0) THEN Body("none", <<>>, 1)
    ELSE os_info_control_set(im, Fmt03d(current_control_set_num.n))

os_info_body(im) ==
    IF "SOFTWARE" \in im.hives /\ K.CurrentVersion \in im.missing
    THEN Body("RegistryKeyNotFoundException", <<>>, 0)
    ELSE IF "SYSTEM" \notin im.hives THEN Body("none", <<>>, 0)
    ELSE IF ~im.selectKey THEN Body("RegistryKeyNotFoundException", <<>>, 0)
    ELSE os_info_system(im, get_value(im.current, Dword(0)))

os_info_parser_run(im) ==
    IF "SOFTWARE" \notin im.hives /\ "SYSTEM" \notin im.hives
    THEN Outcome("False", <<>>, 0, FALSE)
    ELSE TryReturnTrue(os_info_body(im), 1)

(***************************************************************************)
(* network_info_parser.run (network_info_parser.py 15-235).                *)
(***************************************************************************)
network_info_control_set(im, cs) ==
    IF cs.exc # "none" THEN Body(cs.exc, <<>>, cs.curReads)
    ELSE IF K.TcpipParams \in im.missing
    THEN Body("RegistryKeyNotFoundException", <<CSPath(cs.seg, K.TcpipParams)>>, 1)
    ELSE IF K.NetClass \in im.missing
    THEN Body("RegistryKeyNotFoundException",
              <<CSPath(cs.seg, K.TcpipParams), CSPath(cs.seg, K.NetClass)>>, 1)
    ELSE Body("none", <<CSPath(cs.seg, K.TcpipParams), CSPath(cs.seg, K.NetClass),
                        CSPath(cs.seg, K.Interfaces)>>, 1)

network_info_body(im) == network_info_control_set(im, ResolveControlSet(im))

network_info_parser_run(im) ==
    IF "SYSTEM" \notin im.hives THEN ErrorExit(2, <<>>, 0)
    ELSE IF "SOFTWARE" \notin im.hives THEN ErrorExit(2, <<>>, 0)
    ELSE TryReturnTrue(network_info_body(im), 2)

(***************************************************************************)
(* storage_parser.run (storage_parser.py 16-145).                          *)
(***************************************************************************)
storage_control_set(im, cs) ==
    IF cs.exc # "none" THEN Body(cs.exc, <<>>, cs.curReads)
    ELSE Body("none", <<CSPath(cs.seg, K.EnumUSB), CSPath(cs.seg, K.EnumSCSI),
                        CSPath(cs.seg, K.EnumUSBSTOR)>>, 1)

storage_body(im) == storage_control_set(im, ResolveControlSet(im))

storage_parser_run(im) ==
    IF "SYSTEM" \notin im.hives \/ "SOFTWARE" \notin im.hives
    THEN ErrorExit(1, <<>>, 0)
    ELSE TryReturnTrue(storage_body(im), 1)

(***************************************************************************)
(* bam_parser.run (bam_parser.py 16-74).                                   *)
(***************************************************************************)
bam_control_set(im, cs) ==
    IF cs.exc # "none" THEN Body(cs.exc, <<>>, cs.curReads)
    ELSE Body("none", <<CSPath(cs.seg, K.Bam)>>, 1)

bam_body(im) == bam_control_set(im, ResolveControlSet(im))

bam_parser_run(im) ==
    IF "SYSTEM" \notin im.hives THEN ErrorExit(1, <<>>, 0)
    ELSE TryReturnTrue(bam_body(im), 1)

(***************************************************************************)
(* env_vars_parser.run (env_vars_parser.py 14-89).                         *)
(***************************************************************************)
env_vars_control_set(im, cs) ==
    IF cs.exc # "none" THEN Body(cs.exc, <<>>, cs.curReads)
    ELSE IF K.ProfileList \in im.missing
    THEN Body("RegistryKeyNotFoundException", <<CSPath(cs.seg, K.Environment)>>, 1)
    ELSE Body("none", <<CSPath(cs.seg, K.Environment)>>, 1)

env_vars_body(im) == env_vars_control_set(im, ResolveControlSet(im))

env_vars_parser_run(im) ==
    IF "SYSTEM" \notin im.hives THEN ErrorExit(1, <<>>, 0)
    ELSE IF "SOFTWARE" \notin im.hives THEN ErrorExit(1, <<>>, 0)
    ELSE TryReturnTrue(env_vars_body(im), 1)

(***************************************************************************)
(* rdp_parser.run (rdp_parser.py 14-105).                                  *)
(***************************************************************************)
rdp_parser_run(im) ==
    IF "SOFTWARE" \notin im.hives THEN ErrorExit(1, <<>>, 0)
    ELSE IF K.ProfileList \in im.missing THEN ErrorExit(1, <<>>, 0)
    ELSE Outcome("True", <<>>, 0, TRUE)

(***************************************************************************)
(* sam_parser.run (sam_parser.py 18-141).                                  *)
(***************************************************************************)
\* impacket.dcerpc.v5.samr flag masks, as 32-bit limbs.
UF_ACCOUNTDISABLE == <<0, 2>>          \* 0x00000002
UF_DONT_EXPIRE_PASSWD == <<1, 0>>      \* 0x00010000

RECURSIVE BitAnd16(_, _)
BitAnd16(a, b) ==
    IF a = 0 \/ b = 0 THEN 0
    ELSE (a % 2) * (b % 2) + 2 * BitAnd16(a \div 2, b \div 2)

\* uac_flags & mask, as Python's truth value.
FlagSet(uac_flags, mask) ==
    BitAnd16(uac_flags[1], mask[1]) # 0 \/ BitAnd16(uac_flags[2], mask[2]) # 0

HexChars == <<"0", "1", "2", "3", "4", "5", "6", "7", "8", "9",
              "A", "B", "C", "D", "E", "F">>
HexLower == <<"a", "b", "c", "d", "e", "f">>
IsHexChar(c) == (\E i \in 1..16 : HexChars[i] = c) \/ (\E i \in 1..6 : HexLower[i] = c)
HexVal(c) ==
    IF \E i \in 1..16 : HexChars[i] = c
    THEN (CHOOSE i \in 1..16 : HexChars[i] = c) - 1
    ELSE (CHOOSE i \in 1..6 : HexLower[i] = c) + 9

\* int(name, 16): [exc, n].
RECURSIVE HexInt(_, _)
HexInt(name, acc) ==
    IF Len(name) = 0 THEN acc
    ELSE HexInt(Tail(name), acc * 16 + HexVal(Head(name)))

IntBase16(name) ==
    IF Len(name) = 0 \/ \E i \in 1..Len(name) : ~IsHexChar(name[i])
    THEN [exc |-> "ValueError", n |-> 0]
    ELSE [exc |-> "none", n |-> HexInt(name, 0)]

NamesKey == <<"N", "a", "m", "e", "s">>

\* One pass of the loop "for user_key in users_key.subkeys()" (55-85):
\* [exc, skip, user]; user is the dict appended to all_users.
NoUser == [RID |-> 0, UserName |-> StrNone, FullName |-> StrNone, UserComment |-> StrNone,
           LastLogon |-> DtNone, PwdLastSet |-> DtNone, AccountExpires |-> DtNone,
           LastIncorrectPassword |-> DtNone, LoginCount |-> 0, BadPasswordCount |-> 0,
           UserAccountControl |-> <<0, 0>>, NTLMHash |-> "Not Found"]

SamStep(exc, skip, user) == [exc |-> exc, skip |-> skip, user |-> user]

\* A decoder that takes the two counters from each other's offset.
SamFieldsCountersSwapped(rid, hashRids, f, v) ==
    [RID |-> rid,
     UserName |-> parse_v_string(v, 12, 16),
     FullName |-> parse_v_string(v, 24, 28),
     UserComment |-> parse_v_string(v, 36, 40),
     LastLogon |-> filetime_to_datetime(LE64(f, 8)),
     PwdLastSet |-> filetime_to_datetime(LE64(f, 24)),
     AccountExpires |-> filetime_to_datetime(LE64(f, 32)),
     LastIncorrectPassword |-> filetime_to_datetime(LE64(f, 40)),
     LoginCount |-> LE16(f, 64),
     BadPasswordCount |-> LE16(f, 66),
     UserAccountControl |-> LE32(f, 48),
     NTLMHash |-> IF rid \in hashRids THEN "ntlm" ELSE "Not Found"]

\* The dict appended to all_users (73-85).
SamFields(rid, hashRids, f, v) ==
    [RID |-> rid,
     UserName |-> parse_v_string(v, 12, 16),
     FullName |-> parse_v_string(v, 24, 28),
     UserComment |-> parse_v_string(v, 36, 40),
     LastLogon |-> filetime_to_datetime(LE64(f, 8)),
     PwdLastSet |-> filetime_to_datetime(LE64(f, 24)),
     AccountExpires |-> filetime_to_datetime(LE64(f, 32)),
     LastIncorrectPassword |-> filetime_to_datetime(LE64(f, 40)),
     LoginCount |-> LE16(f, 66),
     BadPasswordCount |-> LE16(f, 64),
     UserAccountControl |-> LE32(f, 48),
     NTLMHash |-> IF rid \in hashRids THEN "ntlm" ELSE "Not Found"]

SamAppend(user) ==
    IF DtRaise \in {user.LastLogon, user.PwdLastSet, user.AccountExpires,
                    user.LastIncorrectPassword}
    THEN SamStep("Exception", FALSE, NoUser)
    ELSE SamStep("none", FALSE, user)

SamDecode(im, user_key, rid) ==
    IF rid.exc # "none" THEN SamStep(rid.exc, FALSE, NoUser)
    ELSE IF user_key.F.t = "absent" \/ user_key.V.t = "absent"
    THEN SamStep("RegistryValueNotFoundException", FALSE, NoUser)
    ELSE IF user_key.F.t # "binary" \/ user_key.V.t # "binary"
    THEN SamStep("TypeError", FALSE, NoUser)
    ELSE IF \/ StructError(user_key.F.b, 8, 8) \/ StructError(user_key.F.b, 24, 8)
            \/ StructError(user_key.F.b, 32, 8) \/ StructError(user_key.F.b, 40, 8)
            \/ StructError(user_key.F.b, 66, 2) \/ StructError(user_key.F.b, 64, 2)
            \/ StructError(user_key.F.b, 48, 4)
    THEN SamStep("struct.error", FALSE, NoUser)
    ELSE SamAppend(SamFields(rid.n, im.hashRids, user_key.F.b, user_key.V.b))

sam_user(im, user_key) ==
    IF user_key.name = NamesKey THEN SamStep("none", TRUE, NoUser)
    ELSE SamDecode(im, user_key, IntBase16(user_key.name))

\* The loop over users_key.subkeys() from subkey i on:
\* [exc, excAt (the subkey the exception was raised at, 0 if none), all_users].
RECURSIVE sam_users(_, _, _)
SamLoop(im, i, all_users, st) ==
    IF st.exc # "none" THEN [exc |-> st.exc, excAt |-> i, all_users |-> all_users]
    ELSE IF st.skip THEN sam_users(im, i + 1, all_users)
    ELSE sam_users(im, i + 1, Append(all_users, st.user))

sam_users(im, i, all_users) ==
    IF i > Len(im.users) THEN [exc |-> "none", excAt |-> 0, all_users |-> all_users]
    ELSE SamLoop(im, i, all_users, sam_user(im, im.users[i]))

\* sorted(all_users, key=lambda u: u['RID']): a stable sort.
RECURSIVE InsertByRID(_, _)
InsertByRID(sorted, u) ==
    IF Len(sorted) = 0 THEN <<u>>
    ELSE IF Head(sorted).RID <= u.RID THEN <<Head(sorted)>> \o InsertByRID(Tail(sorted), u)
    ELSE <<u>> \o sorted

RECURSIVE SortByRID(_)
SortByRID(all_users) ==
    IF Len(all_users) = 0 THEN <<>>
    ELSE InsertByRID(SortByRID(SubSeq(all_users, 1, Len(all_users) - 1)),
                     all_users[Len(all_users)])

\* The text "N/A" as code points.
NAText == <<78, 47, 65>>

\* user.get(k, 'N/A') or "N/A"
OrNA(str) == IF str.none \/ str.s = <<>> THEN NAText ELSE str.s

\* w \div 10^k on limbs.
RECURSIVE DivPow10(_, _)
DivPow10(w, k) == IF k = 0 THEN w ELSE DivPow10(DivMod10(w).q, k - 1)

\* format_report_dt (utils.py 39-41): strftime('%Y-%m-%d %H:%M:%S') keeps the
\* whole seconds of the instant; [na, sec] with sec the seconds since 1601-01-01.
format_report_dt(dt) ==
    IF dt.k = "datetime" THEN [na |-> FALSE, sec |-> DivPow10(dt.us, 6)]
    ELSE [na |-> TRUE, sec |-> Zero64]

\* The report dict of one user (96-112).
sam_report(user) ==
    [RID |-> user.RID,
     FullName |-> OrNA(user.FullName),
     Username |-> OrNA(user.UserName),
     Comment |-> OrNA(user.UserComment),
     LastLogin |-> format_report_dt(user.LastLogon),
     PasswordLastSet |-> format_report_dt(user.PwdLastSet),
     LastIncorrectPwd |-> format_report_dt(user.LastIncorrectPassword),
     AccountExpires |-> format_report_dt(user.AccountExpires),
     LoginCount |-> user.LoginCount,
     BadPasswordCount |-> user.BadPasswordCount,
     AccountDisabled |-> IF FlagSet(user.UserAccountControl, UF_ACCOUNTDISABLE)
                         THEN "Yes" ELSE "No",
     PasswordNeverExpires |-> IF FlagSet(user.UserAccountControl, UF_DONT_EXPIRE_PASSWD)
                              THEN "Yes" ELSE "No",
     NTLMHash |-> user.NTLMHash]

\* The report of every user, in RID order (92-114).
SamRows(sorted) == [i \in 1..Len(sorted) |-> sam_report(sorted[i])]

SamBody(exc, excAt, all_users, rows, early) ==
    [exc |-> exc, excAt |-> excAt, all_users |-> all_users, rows |-> rows, early |-> early]

\* Lines 87-136, after the loop.  Cached domain logons (116-136): LSASecrets
\* failing, and the undefined name Table when there are cached hashes, both
\* land in "except Exception as e: print_error(..., console)", whose call
\* raises TypeError into the enclosing try.
SamReport(im, loop) ==
    IF loop.exc # "none" THEN SamBody(loop.exc, loop.excAt, loop.all_users, <<>>, FALSE)
    ELSE IF loop.all_users = <<>> THEN SamBody("none", 0, <<>>, <<>>, TRUE)
    ELSE IF im.lsa # "none" /\ print_error(2) # "none"
    THEN SamBody(print_error(2), 0, loop.all_users, SamRows(SortByRID(loop.all_users)), FALSE)
    ELSE SamBody("none", 0, loop.all_users, SamRows(SortByRID(loop.all_users)), FALSE)

\* The try block of sam_parser.run (33-136):
\* [exc, excAt, all_users, rows, early (the "return True" of line 90 was taken)].
sam_body(im) ==
    IF K.SamUsers \in im.missing
    THEN SamBody("RegistryKeyNotFoundException", 0, <<>>, <<>>, FALSE)
    ELSE SamReport(im, sam_users(im, 1, <<>>))

SamOutcome(ret, reported, body) ==
    [ret |-> ret, opened |-> <<>>, curReads |-> 0, reported |-> reported,
     exc |-> body.exc, excAt |-> body.excAt, all_users |-> body.all_users,
     rows |-> body.rows]

SamReturn(body) ==
    IF body.exc # "none"
    THEN IF print_error(1) = "none"
         THEN SamOutcome("False", FALSE, body)
         ELSE SamOutcome("Raise", FALSE, body)
    ELSE IF body.early THEN SamOutcome("True", TRUE, body)
    ELSE SamOutcome("None", TRUE, body)    \* no return after the report

sam_parser_run(im) ==
    IF "SAM" \notin im.hives \/ "SYSTEM" \notin im.hives
    THEN Outcome("False", <<>>, 0, FALSE)
    ELSE SamReturn(sam_body(im))

(***************************************************************************)
(* regalyzer.main (regalyzer.py 24-63).                                    *)
(***************************************************************************)
PARSERS == <<"os_info_parser", "network_info_parser", "storage_parser",
             "sam_parser", "rdp_parser">>

Modules == {"os_info_parser", "network_info_parser", "storage_parser", "sam_parser",
            "rdp_parser", "bam_parser", "env_vars_parser"}

\* module.run(console, args.image_root)
Run(m, im) ==
    CASE m = "os_info_parser" -> os_info_parser_run(im)
      [] m = "network_info_parser" -> network_info_parser_run(im)
      [] m = "storage_parser" -> storage_parser_run(im)
      [] m = "sam_parser" -> sam_parser_run(im)
      [] m = "rdp_parser" -> rdp_parser_run(im)
      [] m = "bam_parser" -> bam_parser_run(im)
      [] m = "env_vars_parser" -> env_vars_parser_run(im)

\* Python's truth value of what run() returned.
Truthy(ret) == ret = "True"

\* One pass of "for name, module in PARSERS" (54-56).  An exception leaving
\* run() leaves main() as well: nothing in main() catches it.
Returned(out) ==
    /\ outcomes' = Append(outcomes, out)
    /\ IF out.ret = "Raise"
       THEN /\ pc' = "crashed"
            /\ UNCHANGED <<idx, parsers_run_count>>
       ELSE /\ idx' = idx + 1
            /\ parsers_run_count' =
                   IF Truthy(out.ret) THEN parsers_run_count + 1
                   ELSE parsers_run_count
            /\ pc' = "loop"

InvokeParser ==
    /\ pc = "loop"
    /\ idx <= Len(PARSERS)
    /\ Returned(Run(PARSERS[idx], img))
    /\ UNCHANGED <<img, runVars, loopVars, storageVars, networkVars, callVars>>

\* The end of the loop and the summary (58-63).
Summary ==
    /\ pc = "loop"
    /\ idx > Len(PARSERS)
    /\ pc' = IF parsers_run_count > 0 THEN "done_ok" ELSE "done_none"
    /\ UNCHANGED <<img, driverVars, runVars, loopVars, storageVars, networkVars, callVars>>

\* Invoking one module's run() on its own.
RunModule ==
    /\ pc = "idle"
    /\ result = NoOutcome
    /\ result' = Run(module, img)
    /\ UNCHANGED <<img, pc, driverVars, module, loopVars, storageVars, networkVars, callVars>>

(***************************************************************************)
(* The images the model draws.                                             *)
(***************************************************************************)
ZeroBytes(n) == [i \in 1..n |-> 0]

\* `blob` with `bytes` written at 0-based offset `off` (where they fit).
PutBytes(blob, off, bytes) ==
    [i \in 1..Len(blob) |->
        IF i > off /\ i <= off + Len(bytes) THEN bytes[i - off] ELSE blob[i]]

\* An F blob of `len` bytes holding the given little-endian fields.
MkF(len, lastLogon, pwdLastSet, expires, lastBad, uac, bad, logins) ==
    PutBytes(PutBytes(PutBytes(PutBytes(PutBytes(PutBytes(PutBytes(ZeroBytes(len),
        8, lastLogon), 24, pwdLastSet), 32, expires), 40, lastBad), 48, uac),
        64, bad), 66, logins)

\* A V blob: a header of 0xCC bytes whose three (offset, length) pairs sit at
\* 12/16, 24/28 and 36/40, followed by `data`.
MkV(hdrLen, uOff, uLen, fOff, fLen, cOff, cLen, data) ==
    PutBytes(PutBytes(PutBytes(PutBytes(PutBytes(PutBytes(ZeroBytes(hdrLen),
        12, uOff), 16, uLen), 24, fOff), 28, fLen), 36, cOff), 40, cLen) \o data

FT_Zero == <<0, 0, 0, 0, 0, 0, 0, 0>>
FT_Never == <<255, 255, 255, 255, 255, 255, 255, 127>>       \* 0x7FFFFFFFFFFFFFFF
FT_2023 == <<135, 154, 44, 82, 204, 40, 217, 1>>             \* 2023-01-15 10:30:00.1234567
FT_Last == <<255, 63, 192, 209, 94, 90, 200, 36>>            \* 9999-12-31 23:59:59.9999999
FT_Over == <<0, 64, 192, 209, 94, 90, 200, 36>>              \* FT_Last + 1
FT_Ones == <<255, 255, 255, 255, 255, 255, 255, 255>>        \* 2^64 - 1

Name_1F4 == <<"0", "0", "0", "0", "0", "1", "F", "4">>       \* RID 500
Name_1F5 == <<"0", "0", "0", "0", "0", "1", "F", "5">>       \* RID 501
Name_3E9 == <<"0", "0", "0", "0", "0", "3", "E", "9">>       \* RID 1001

UserKey(name, f, v) == [name |-> name, F |-> f, V |-> v]

Hives == {"SAM", "SYSTEM", "SOFTWARE"}

CurrentValues ==
    {Absent, Sz("N/A"), Sz("1"), Dword(1000)} \cup {Dword(n) : n \in 0..MaxCS}

\* [selectKey, current]: the Select key, and its Current value when the key exists.
SelectStates ==
    {[selectKey |-> FALSE, current |-> Absent]}
        \cup {[selectKey |-> TRUE, current |-> c] : c \in CurrentValues}

MissingSets == {m \in SUBSET RequiredKeys : Cardinality(m) <= MaxMissing}

LsaStates == {"none", "cached", "error"}

RECURSIVE SeqsUpTo(_, _)
Extend(shorter, S, n) ==
    shorter \cup {Append(q, x) : q \in {r \in shorter : Len(r) = n - 1}, x \in S}

SeqsUpTo(S, n) == IF n = 0 THEN {<<>>} ELSE Extend(SeqsUpTo(S, n - 1), S, n)

\* Sequences of keys with distinct names: the subkeys of one key.
DistinctNames(keys) ==
    \A i, j \in 1..Len(keys) : keys[i].name = keys[j].name => i = j

Subkeys(candidates, n) == {q \in SeqsUpTo(candidates, n) : DistinctNames(q)}

Image(hives, sel, missing, users, lsa) ==
    [hives |-> hives, selectKey |-> sel.selectKey, current |-> sel.current,
     missing |-> missing, users |-> users, lsa |-> lsa, hashRids |-> {500}]

\* Accounts of the images the driver is run on.
GoodF == MkF(68, FT_2023, FT_2023, FT_Never, FT_Zero, <<16, 2, 0, 0>>, <<0, 0>>, <<7, 0>>)
ShortF == ZeroBytes(67)
PlainV == MkV(VBase, <<0, 0, 0, 0>>, <<4, 0, 0, 0>>, <<4, 0, 0, 0>>, <<0, 0, 0, 0>>,
              <<4, 0, 0, 0>>, <<0, 0, 0, 0>>, <<65, 0, 98, 0>>)

DriverAccounts == {UserKey(Name_1F4, Binary(GoodF), Binary(PlainV)),
                   UserKey(Name_1F5, Binary(ShortF), Binary(PlainV))}

DriverImages ==
    {Image(h, sel, m, u, l) :
        h \in SUBSET Hives, sel \in SelectStates, m \in MissingSets,
        u \in Subkeys(DriverAccounts, MaxUsers), l \in LsaStates}

(***************************************************************************)
(* Specifications.                                                         *)
(***************************************************************************)
\* The variables of the parts that are not running.
NoDriver == idx = 0 /\ parsers_run_count = 0 /\ outcomes = <<>>
NoRun == module = "-" /\ result = NoOutcome
NoLoop == hive = <<>> /\ pos = <<0, 0>>
NoStorage == usb_info_map = <<>> /\ usb_table = <<>>
NoNetwork == profiles = <<>> /\ history_table = <<>> /\ has_history = FALSE
NoCall == input = <<>> /\ output = <<>>

\* main() on an image.
Init ==
    /\ img \in DriverImages
    /\ pc = "loop"
    /\ idx = 1
    /\ parsers_run_count = 0
    /\ outcomes = <<>>
    /\ NoRun /\ NoLoop /\ NoStorage /\ NoNetwork /\ NoCall

Next == InvokeParser \/ Summary

Spec == Init /\ [][Next]_vars

\* One module's run() on an image.
InitRun ==
    /\ img \in DriverImages
    /\ pc = "idle"
    /\ module \in Modules
    /\ result = NoOutcome
    /\ NoDriver /\ NoLoop /\ NoStorage /\ NoNetwork /\ NoCall

NextRun == RunModule

SpecRun == InitRun /\ [][NextRun]_vars

(***************************************************************************)
(* Claims about the driver and the parsers' outcomes.                      *)
(***************************************************************************)
Done == {"done_ok", "done_none"}

\* The invoked parsers that got to the end of their report.
Reported == {i \in 1..Len(outcomes) : outcomes[i].reported}

\* C1: a report type that fails (a required hive is missing, or an exception
\* occurs inside run()) hands False to the driver and never raises, and the
\* driver goes on to invoke every remaining parser of PARSERS.
C1_FailureReturnsFalseAndRunContinues ==
    /\ \A i \in 1..Len(outcomes) : ~outcomes[i].reported => outcomes[i].ret = "False"
    /\ pc # "crashed"
    /\ pc \in Done => Len(outcomes) = Len(PARSERS)

\* C2: when main() has invoked all parsers, parsers_run_count is the number of
\* report types that ran to completion and produced their report, and the run
\* is reported successful exactly if there is at least one.
C2_CountIsReportsProduced ==
    pc \in Done =>
        /\ parsers_run_count = Cardinality(Reported)
        /\ pc = "done_ok" <=> Cardinality(Reported) > 0

\* The modules that resolve the control set.
ControlSetModules == {"os_info_parser", "network_info_parser", "storage_parser",
                      "bam_parser", "env_vars_parser"}

\* Select\Current is absent or is not an integer.
CurrentUnusable(im) == im.selectKey /\ im.current.t # "dword"

\* C3: in every report that resolves the control set, a Select key whose
\* Current value is absent or not an integer makes run() return False, with no
\* ControlSetNNN-scoped path opened.
C3_UnusableCurrentFailsTheReport ==
    ( /\ module \in ControlSetModules
      /\ result # NoOutcome
      /\ {"SYSTEM", "SOFTWARE"} \subseteq img.hives
      /\ img.missing = {}
      /\ CurrentUnusable(img) )
        => result.ret = "False" /\ result.opened = <<>>

\* The RID of an account subkey, and the account subkeys of an image whose F
\* value holds the 68 bytes the record needs.
RidOf(user_key) == IntBase16(user_key.name).n
Decodable(im) ==
    {i \in 1..Len(im.users) : Len(im.users[i].F.b) >= 68}

\* C7: run() of the SAM parser, on an image whose Users key exists, does not
\* fail because of an account whose F value is shorter than 68 bytes: that
\* account alone is left out, and every other account is reported.
C7_ShortFBlobSkipsThatAccountOnly ==
    ( /\ module = "sam_parser"
      /\ result # NoOutcome
      /\ {"SAM", "SYSTEM"} \subseteq img.hives
      /\ K.SamUsers \notin img.missing
      /\ img.lsa = "none" )
        => /\ result.ret \notin {"False", "Raise"}
           /\ {result.rows[k].RID : k \in 1..Len(result.rows)}
                  = {RidOf(img.users[i]) : i \in Decodable(img)}

(***************************************************************************)
(* storage_parser.run: the USB correlation (storage_parser.py 37-55 and    *)
(* 72-120), one step per loop iteration.                                   *)
(***************************************************************************)
\* A registry key as the loops see it.
Key(name, timestamp, HardwareID, FriendlyName, default, subkeys) ==
    [name |-> name, timestamp |-> timestamp, HardwareID |-> HardwareID,
     FriendlyName |-> FriendlyName, default |-> default, subkeys |-> subkeys]

\* str.startswith, str.endswith and the 1-based index of the first c at or
\* after position i (0 when there is none).
StartsWith(str, prefix) ==
    Len(prefix) <= Len(str) /\ SubSeq(str, 1, Len(prefix)) = prefix

EndsWith(str, suffix) ==
    Len(suffix) <= Len(str)
        /\ SubSeq(str, Len(str) - Len(suffix) + 1, Len(str)) = suffix

\* str[m-1:n] of Python for 1-based m..n: the part of the range that exists.
Slice(str, m, n) == SubSeq(str, m, IF n > Len(str) THEN Len(str) ELSE n)

RECURSIVE Find(_, _, _)
Find(str, c, i) ==
    IF i > Len(str) THEN 0
    ELSE IF str[i] = c THEN i
    ELSE Find(str, c, i + 1)

\* The end (exclusive) of a maximal run of [^&] starting at i.
RunEnd(str, amp) == IF amp = 0 THEN Len(str) + 1 ELSE amp

\* re.search(r'VID_([^&]+)&PID_([^&]+)', name): the groups of a match that
\* starts at i, given the position e of the first '&' at or after i + 4.
Lit_VID == <<"V", "I", "D", "_">>
Lit_PID == <<"&", "P", "I", "D", "_">>
NoMatch == [matched |-> FALSE, vid |-> <<>>, pid |-> <<>>]

ReGroups(name, i, e) ==
    IF /\ Slice(name, i, i + 3) = Lit_VID
       /\ e > i + 4
       /\ Slice(name, e, e + 4) = Lit_PID
       /\ e + 5 <= Len(name)
       /\ name[e + 5] # "&"
    THEN [matched |-> TRUE,
          vid |-> SubSeq(name, i + 4, e - 1),
          pid |-> SubSeq(name, e + 5, RunEnd(name, Find(name, "&", e + 5)) - 1)]
    ELSE NoMatch

RECURSIVE ReSearchFrom(_, _)
ReOrNext(groups, name, i) ==
    IF groups.matched THEN groups ELSE ReSearchFrom(name, i + 1)

ReSearchFrom(name, i) ==
    IF i > Len(name) THEN NoMatch
    ELSE ReOrNext(ReGroups(name, i, Find(name, "&", i + 4)), name, i)

re_search_vid_pid(name) == ReSearchFrom(name, 1)

\* format_datetime_obj (utils.py 66-74): strftime('%Y-%m-%d %H:%M:%S') of a
\* datetime keeps its whole seconds; anything else is "N/A".
format_datetime_obj(dt_obj) ==
    IF dt_obj.t = "datetime" THEN [na |-> FALSE, sec |-> DivPow10(dt_obj.b, 6)]
    ELSE [na |-> TRUE, sec |-> Zero64]

TextNA == [na |-> TRUE, sec |-> Zero64]

\* ', '.join(filter(None, hw_id_list)), as the list of its pieces.
RECURSIVE JoinNonEmpty(_, _)
JoinNonEmpty(list, acc) ==
    IF list = <<>> THEN acc
    ELSE IF Head(list) = "" THEN JoinNonEmpty(Tail(list), acc)
    ELSE IF acc = <<>> THEN JoinNonEmpty(Tail(list), <<Head(list)>>)
    ELSE JoinNonEmpty(Tail(list), acc \o <<", ", Head(list)>>)

\* hw_id_list (47-48): the value, [] when absent, [value] when it is a str.
hw_id_list(value) ==
    IF value.t = "absent" THEN <<>>
    ELSE IF value.t = "sz" THEN <<value.s>>
    ELSE value.b

\* d[k] = v on a dict kept as its items in insertion order: an existing key
\* keeps its place and takes the new value.
RECURSIVE DictIndex(_, _, _)
DictIndex(d, k, i) ==
    IF i > Len(d) THEN 0
    ELSE IF d[i].key = k THEN i
    ELSE DictIndex(d, k, i + 1)

DictSet(d, k, v, at) ==
    IF at = 0 THEN Append(d, [key |-> k, val |-> v])
    ELSE [d EXCEPT ![at] = [key |-> k, val |-> v]]

DictPut(d, k, v) == DictSet(d, k, v, DictIndex(d, k, 1))

\* The dict entry of one instance key (50-54).
usb_data(groups, instance_key) ==
    [vid |-> groups.vid, pid |-> groups.pid,
     last_connected |-> format_datetime_obj(instance_key.timestamp),
     hardware_id |-> JoinNonEmpty(hw_id_list(instance_key.HardwareID), <<>>)]

\* for instance_key in vid_pid_key.subkeys(): one iteration (46-54).
IndexInstanceOf(vid_pid_key, groups, j) ==
    /\ groups.matched
    /\ j <= Len(vid_pid_key.subkeys)
    /\ usb_info_map' = DictPut(usb_info_map, vid_pid_key.subkeys[j].name,
                               usb_data(groups, vid_pid_key.subkeys[j]))
    /\ pos' = <<pos[1], j + 1>>

IndexInstance ==
    /\ pc = "usb_index"
    /\ hive.usb.exists
    /\ pos[1] <= Len(hive.usb.subkeys)
    /\ IndexInstanceOf(hive.usb.subkeys[pos[1]],
                       re_search_vid_pid(hive.usb.subkeys[pos[1]].name), pos[2])
    /\ UNCHANGED <<img, pc, hive, usb_table, driverVars, runVars, networkVars, callVars>>

\* for vid_pid_key in usb_key.subkeys(): on to the next key, when the name
\* does not match (44) or the instances are exhausted.
NextVidPidKey ==
    /\ pc = "usb_index"
    /\ hive.usb.exists
    /\ pos[1] <= Len(hive.usb.subkeys)
    /\ \/ ~re_search_vid_pid(hive.usb.subkeys[pos[1]].name).matched
       \/ pos[2] > Len(hive.usb.subkeys[pos[1]].subkeys)
    /\ pos' = <<pos[1] + 1, 1>>
    /\ UNCHANGED <<img, pc, hive, storageVars, driverVars, runVars, networkVars, callVars>>

\* The index is complete, or Enum\USB does not exist (55); the USBSTOR key is
\* opened (76), and when it does not exist there is no table (119-120).
OpenUsbstor ==
    /\ pc = "usb_index"
    /\ ~hive.usb.exists \/ pos[1] > Len(hive.usb.subkeys)
    /\ pc' = IF hive.usbstor.exists THEN "usbstor" ELSE "storage_done"
    /\ pos' = <<1, 1>>
    /\ UNCHANGED <<img, hive, storageVars, driverVars, runVars, networkVars, callVars>>

\* serial_number_full.split('&')[0]
SplitHead(str, amp) == IF amp = 0 THEN str ELSE SubSeq(str, 1, amp - 1)
serial_number_short(serial_number_full) ==
    SplitHead(serial_number_full, Find(serial_number_full, "&", 1))

\* A scan that goes on after a match: the last matching item wins.
RECURSIVE LastMatch(_, _, _)
LastMatch(d, short, i) ==
    IF i > Len(d) THEN 0
    ELSE IF LastMatch(d, short, i + 1) # 0 THEN LastMatch(d, short, i + 1)
    ELSE IF StartsWith(d[i].key, short) THEN i
    ELSE 0

\* for usb_serial, usb_data in usb_info_map.items(): the index of the first
\* item whose key starts with the short serial, 0 when the loop ends without break.
RECURSIVE FirstMatch(_, _, _)
FirstMatch(d, short, i) ==
    IF i > Len(d) THEN 0
    ELSE IF StartsWith(d[i].key, short) THEN i
    ELSE FirstMatch(d, short, i + 1)

\* find_timestamp_value (utils.py 76-91).
RECURSIVE find_timestamp_value(_, _), FindInSubkeys(_, _, _)
FoundOrNext(found, subkeys, i, suffix) ==
    IF found # Sz("N/A") THEN found ELSE FindInSubkeys(subkeys, i + 1, suffix)

FindInSubkeys(subkeys, i, suffix) ==
    IF i > Len(subkeys) THEN Sz("N/A")
    ELSE FoundOrNext(find_timestamp_value(subkeys[i], suffix), subkeys, i, suffix)

find_timestamp_value(start_key, key_name_suffix_to_find) ==
    IF EndsWith(start_key.name, key_name_suffix_to_find)
    THEN get_value(start_key.default, NotFound)
    ELSE FindInSubkeys(start_key.subkeys, 1, key_name_suffix_to_find)

Suffix_0067 == <<"0", "0", "6", "7">>
CharsNA == <<"N", "/", "A">>

\* A row that keeps the last_connected of the join as it is.
LastConnectedKept(last_connected, first_installed) == last_connected

\* if last_connected == "N/A": last_connected = first_installed (100-101)
OrFirstInstalled(last_connected, first_installed) ==
    IF last_connected.na THEN first_installed ELSE last_connected

\* The row of one serial key (84-115), given the index of the matching item.
usb_row(serial_key, d, m) ==
    [device |-> get_value(serial_key.FriendlyName, Sz("N/A")),
     serial |-> serial_number_short(serial_key.name),
     vid |-> IF m = 0 THEN CharsNA ELSE d[m].val.vid,
     pid |-> IF m = 0 THEN CharsNA ELSE d[m].val.pid,
     hardware_id |-> IF m = 0 THEN <<"N/A">> ELSE d[m].val.hardware_id,
     first_installed |-> format_datetime_obj(serial_key.timestamp),
     last_connected |->
         OrFirstInstalled(IF m = 0 THEN TextNA ELSE d[m].val.last_connected,
                          format_datetime_obj(serial_key.timestamp)),
     last_removed |->
         format_datetime_obj(find_timestamp_value(serial_key, Suffix_0067))]

\* An iteration that adds a row only for a serial key with a match.
CorrelateMatchedOnly(serial_key) ==
    usb_table' =
        IF FirstMatch(usb_info_map, serial_number_short(serial_key.name), 1) = 0
        THEN usb_table
        ELSE Append(usb_table,
                 usb_row(serial_key, usb_info_map,
                         FirstMatch(usb_info_map, serial_number_short(serial_key.name), 1)))

\* for serial_key in device_class.subkeys(): one iteration (83-115).
CorrelateSerialOf(serial_key) ==
    usb_table' = Append(usb_table,
        usb_row(serial_key, usb_info_map,
                FirstMatch(usb_info_map, serial_number_short(serial_key.name), 1)))

CorrelateSerial ==
    /\ pc = "usbstor"
    /\ pos[1] <= Len(hive.usbstor.subkeys)
    /\ pos[2] <= Len(hive.usbstor.subkeys[pos[1]].subkeys)
    /\ CorrelateSerialOf(hive.usbstor.subkeys[pos[1]].subkeys[pos[2]])
    /\ pos' = <<pos[1], pos[2] + 1>>
    /\ UNCHANGED <<img, pc, hive, usb_info_map, driverVars, runVars, networkVars, callVars>>

\* for device_class in usbstor_key.subkeys(): on to the next class (82).
NextDeviceClass ==
    /\ pc = "usbstor"
    /\ pos[1] <= Len(hive.usbstor.subkeys)
    /\ pos[2] > Len(hive.usbstor.subkeys[pos[1]].subkeys)
    /\ pos' = <<pos[1] + 1, 1>>
    /\ UNCHANGED <<img, pc, hive, storageVars, driverVars, runVars, networkVars, callVars>>

\* console.print(usb_table) (117).
PrintUsbTable ==
    /\ pc = "usbstor"
    /\ pos[1] > Len(hive.usbstor.subkeys)
    /\ pc' = "storage_done"
    /\ UNCHANGED <<img, hive, pos, storageVars, driverVars, runVars, networkVars, callVars>>

(***************************************************************************)
(* The Enum\USB and Enum\USBSTOR subtrees the model draws.                 *)
(***************************************************************************)
NoKeys == <<>>
Leaf(name, timestamp, HardwareID, FriendlyName, default) ==
    Key(name, timestamp, HardwareID, FriendlyName, default, NoKeys)

T_1 == Datetime(<<0, 0, 22, 58208>>)     \* 1.5 s after the epoch
T_2 == Datetime(<<0, 0, 30, 33920>>)     \* 2.0 s
T_3 == Datetime(<<0, 0, 53, 26432>>)     \* 3.5 s
T_4 == Datetime(<<0, 0, 61, 2304>>)      \* 4.0 s

VidPid_0781 == <<"V", "I", "D", "_", "0", "7", "8", "1", "&", "P", "I", "D", "_", "5", "5", "6", "7">>
VidPid_046D == <<"V", "I", "D", "_", "0", "4", "6", "D", "&", "P", "I", "D", "_", "C", "5", "2", "B">>
Root_Hub == <<"R", "O", "O", "T", "_", "H", "U", "B", "3", "0">>

Instance_5_1a == <<"5", "&", "1", "a", "2", "b", "3", "c", "4", "d", "&", "0">>
Instance_5_2f == <<"5", "&", "2", "f">>
Instance_4C53 == <<"4", "C", "5", "3", "0", "0", "0", "1">>

InstanceKeys ==
    {Leaf(Instance_5_1a, T_1,
          MultiSz(<<"USB\\VID_0781&PID_5567&REV_0100", "", "USB\\VID_0781&PID_5567">>),
          Absent, Absent),
     Leaf(Instance_5_2f, T_2, Sz("USB\\VID_046D&PID_C52B"), Absent, Absent),
     Leaf(Instance_4C53, T_3, Absent, Absent, Absent)}

Serial_5_1a == <<"5", "&", "1", "a", "2", "b", "3", "c", "4", "d", "&", "0", "&", "5", "C", "0", "0", "0", "0", "0", "0", "0", "0", "0", "0">>
Serial_4C53 == <<"4", "C", "5", "3">>
Serial_Amp == <<"&", "1">>

\* Properties\...\0067 below a serial key holds the time of the last removal;
\* here a key named ...0067 lies one level deeper before a sibling of that
\* name.
PropertiesWith0067 ==
    <<Key(<<"P">>, T_1, Absent, Absent, Absent,
          <<Leaf(<<"0", "0", "6", "6">>, T_1, Absent, Absent, Datetime(T_2.b)),
            Key(<<"0", "0", "0", "3">>, T_1, Absent, Absent, Absent,
                <<Leaf(Suffix_0067, T_1, Absent, Absent, Datetime(T_4.b))>>),
            Leaf(Suffix_0067, T_1, Absent, Absent, Datetime(T_3.b))>>)>>

\* A key named ...0067 without a default value before one with a time.
PropertiesWithout0067Value ==
    <<Leaf(<<"A">> \o Suffix_0067, T_1, Absent, Absent, Absent),
      Leaf(<<"B">> \o Suffix_0067, T_1, Absent, Absent, Datetime(T_1.b))>>

\* A key named ...0067 whose default value is the text "N/A" before one with
\* a time.
PropertiesWith0067Text ==
    <<Leaf(<<"A">> \o Suffix_0067, T_1, Absent, Absent, Sz("N/A")),
      Leaf(<<"B">> \o Suffix_0067, T_1, Absent, Absent, Datetime(T_1.b))>>

SerialKeys ==
    {Key(Serial_5_1a, T_3, Absent, Sz("SanDisk Cruzer USB Device"), Absent,
         PropertiesWith0067),
     Key(Serial_4C53, T_2, Absent, Absent, Absent, PropertiesWithout0067Value),
     Key(Serial_Amp, T_4, Absent, Sz("Generic Flash Disk"), Absent, PropertiesWith0067Text)}

UsbLayouts == {<<>>, <<VidPid_0781, VidPid_046D>>, <<Root_Hub, VidPid_046D>>}

\* Enum\USB with the VID/PID keys of `layout`, each with its instance keys.
UsbKeys(layout) ==
    {[i \in 1..Len(layout) |->
        Key(layout[i], T_1, Absent, Absent, Absent, inst[i])] :
            inst \in [1..Len(layout) -> Subkeys(InstanceKeys, MaxInstances)]}

UsbstorLayouts == {<<"Disk&Ven_SanDisk">>, <<"Disk&Ven_SanDisk", "Disk&Ven_Generic">>}

UsbstorKeys(layout) ==
    {[i \in 1..Len(layout) |->
        Key(layout[i], T_1, Absent, Absent, Absent, ser[i])] :
            ser \in [1..Len(layout) -> Subkeys(SerialKeys, MaxSerials)]}

NoSubtree == [exists |-> FALSE, subkeys |-> <<>>]
Subtree(subkeys) == [exists |-> TRUE, subkeys |-> subkeys]

UsbSubtrees ==
    {NoSubtree} \cup {Subtree(k) : k \in UNION {UsbKeys(l) : l \in UsbLayouts}}

UsbstorSubtrees ==
    {NoSubtree} \cup {Subtree(k) : k \in UNION {UsbstorKeys(l) : l \in UsbstorLayouts}}

\* storage_parser.run from the point where the control set is resolved.
InitStorage ==
    /\ hive \in {[usb |-> u, usbstor |-> s] : u \in UsbSubtrees, s \in UsbstorSubtrees}
    /\ pc = "usb_index"
    /\ pos = <<1, 1>>
    /\ usb_info_map = <<>>
    /\ usb_table = <<>>
    /\ img = <<>>
    /\ NoDriver /\ NoRun /\ NoNetwork /\ NoCall

NextStorage ==
    \/ IndexInstance
    \/ NextVidPidKey
    \/ OpenUsbstor
    \/ CorrelateSerial
    \/ NextDeviceClass
    \/ PrintUsbTable

SpecStorage == InitStorage /\ [][NextStorage]_vars

(***************************************************************************)
(* Claims about the USB correlation.                                       *)
(***************************************************************************)
\* The serial keys of the first n device classes, in enumeration order.
RECURSIVE SerialKeysOf(_, _)
SerialKeysOf(classes, n) ==
    IF n = 0 THEN <<>>
    ELSE SerialKeysOf(classes, n - 1) \o classes[n].subkeys

\* The serial keys the loops of 82-83 have gone through so far.
Enumerated ==
    IF pc = "usbstor" /\ pos[1] <= Len(hive.usbstor.subkeys)
    THEN SerialKeysOf(hive.usbstor.subkeys, pos[1] - 1)
             \o SubSeq(hive.usbstor.subkeys[pos[1]].subkeys, 1, pos[2] - 1)
    ELSE IF pc \in {"usbstor", "storage_done"}
    THEN SerialKeysOf(hive.usbstor.subkeys, Len(hive.usbstor.subkeys))
    ELSE <<>>

\* short is name up to, not including, its first '&'.
IsShortSerial(short, name) ==
    /\ StartsWith(name, short)
    /\ \A i \in 1..Len(short) : short[i] # "&"
    /\ Len(short) = Len(name) \/ name[Len(short) + 1] = "&"

\* The positions of the index whose key starts with `short`.
Matching(short) ==
    {i \in 1..Len(usb_info_map) : StartsWith(usb_info_map[i].key, short)}

First(S) == CHOOSE i \in S : \A j \in S : i <= j

\* The instance key names of Enum\USB below VID/PID-named keys, in
\* enumeration order, and the first position of a name in that order.
RECURSIVE InstanceNamesOf(_, _)
InstanceNamesOf(keys, n) ==
    IF n = 0 THEN <<>>
    ELSE InstanceNamesOf(keys, n - 1)
             \o IF re_search_vid_pid(keys[n].name).matched
                THEN [j \in 1..Len(keys[n].subkeys) |-> keys[n].subkeys[j].name]
                ELSE <<>>

FirstSeen(names, name) == First({i \in 1..Len(names) : names[i] = name})

IndexInEnumerationOrder(names) ==
    /\ {usb_info_map[i].key : i \in 1..Len(usb_info_map)}
           = {names[i] : i \in 1..Len(names)}
    /\ \A i, j \in 1..Len(usb_info_map) :
           i < j => FirstSeen(names, usb_info_map[i].key)
                        < FirstSeen(names, usb_info_map[j].key)

JoinedFrom(row, data) ==
    /\ row.vid = data.vid
    /\ row.pid = data.pid
    /\ row.hardware_id = data.hardware_id
    /\ ~data.last_connected.na => row.last_connected = data.last_connected

Vid_0781 == <<"0", "7", "8", "1">>

\* C4: every row's short serial is its serial key's name up to the first '&';
\* once built, the index lists the Enum\USB instance names in enumeration
\* order, and the first index key that starts with the short serial supplies
\* vid, pid, last_connected and hardware_id of the row, later matching keys
\* being ignored.  With the one index key "5&1a2b3c4d&0" of vid "0781", the row
\* of serial "5&1a2b3c4d&0&5C0000000000" carries vid "0781".
C4_FirstIndexKeyWithShortSerialPrefixIsJoined ==
    pc \in {"usbstor", "storage_done"} =>
        /\ Len(usb_table) <= Len(Enumerated)
        /\ hive.usb.exists =>
               IndexInEnumerationOrder(
                   InstanceNamesOf(hive.usb.subkeys, Len(hive.usb.subkeys)))
        /\ \A k \in 1..Len(usb_table) :
               /\ IsShortSerial(usb_table[k].serial, Enumerated[k].name)
               /\ Matching(usb_table[k].serial) # {} =>
                      JoinedFrom(usb_table[k],
                                 usb_info_map[First(Matching(usb_table[k].serial))].val)
               /\ ( /\ Enumerated[k].name = Serial_5_1a
                    /\ Len(usb_info_map) = 1
                    /\ usb_info_map[1].key = Instance_5_1a
                    /\ usb_info_map[1].val.vid = Vid_0781 )
                      => usb_table[k].vid = Vid_0781

\* C4 witness: the row of serial "5&1a2b3c4d&0&5C0000000000" carries vid
\* "0781" of the index key "5&1a2b3c4d&0", the first of two index keys that
\* start with its short serial; the later one has another vid.
C4_Witness ==
    /\ pc = "storage_done"
    /\ \E k \in 1..Len(usb_table) :
           /\ Enumerated[k].name = Serial_5_1a
           /\ usb_table[k].vid = Vid_0781
           /\ Cardinality(Matching(usb_table[k].serial)) >= 2
           /\ usb_info_map[First(Matching(usb_table[k].serial))].key = Instance_5_1a
           /\ \E i \in Matching(usb_table[k].serial) :
                  usb_info_map[i].val.vid # Vid_0781

\* C5: every serial key gone through has exactly one row, in order, whatever
\* the index holds; a row whose short serial no index key starts with (the
\* index being empty when Enum\USB does not exist) has vid, pid and
\* hardware_id "N/A", and the enumeration goes on: at the end there are as
\* many rows as serial keys.
C5_OneRowPerSerialKeyAndNAWithoutMatch ==
    /\ Len(usb_table) = Len(Enumerated)
    /\ \A k \in 1..Len(usb_table) :
           /\ usb_table[k].serial = serial_number_short(Enumerated[k].name)
           /\ usb_table[k].first_installed = format_datetime_obj(Enumerated[k].timestamp)
           /\ Matching(usb_table[k].serial) = {} =>
                  /\ usb_table[k].vid = CharsNA
                  /\ usb_table[k].pid = CharsNA
                  /\ usb_table[k].hardware_id = <<"N/A">>
    /\ ~hive.usb.exists => usb_info_map = <<>>
    /\ pc = "storage_done" /\ hive.usbstor.exists =>
           Len(usb_table) = Len(SerialKeysOf(hive.usbstor.subkeys,
                                             Len(hive.usbstor.subkeys)))

\* C5 witness: Enum\USB does not exist, and the table is printed with two
\* rows, the first of them already without a match.
C5_Witness ==
    /\ pc = "storage_done"
    /\ ~hive.usb.exists
    /\ Len(usb_table) = 2
    /\ \A k \in 1..2 : usb_table[k].vid = CharsNA /\ usb_table[k].hardware_id = <<"N/A">>

(***************************************************************************)
(* utils.parse_systemtime_from_binary (utils.py 177-194) and               *)
(* utils.format_mac_address (utils.py 196-200).                            *)
(***************************************************************************)
SysNA == [k |-> "N/A", date |-> <<>>, time |-> <<>>]
SysParsingError == [k |-> "[Parsing Error]", date |-> <<>>, time |-> <<>>]
\* '%Y-%m-%d %H:%M:%S' of a datetime.
SysText(year, month, day, hour, minute, second) ==
    [k |-> "text", date |-> <<year, month, day>>, time |-> <<hour, minute, second>>]

IsLeap(year) == year % 4 = 0 /\ (year % 100 # 0 \/ year % 400 = 0)

DaysInMonth(year, month) ==
    IF month = 2 THEN (IF IsLeap(year) THEN 29 ELSE 28)
    ELSE IF month \in {4, 6, 9, 11} THEN 30
    ELSE 31

\* datetime(year, month, day, hour, minute, second) raises ValueError.
DatetimeValueError(year, month, day, hour, minute, second) ==
    \/ year < 1 \/ year > 9999
    \/ month < 1 \/ month > 12
    \/ day < 1 \/ day > DaysInMonth(year, month)
    \/ hour > 23 \/ minute > 59 \/ second > 59

SystemtimeOf(year, month, day, hour, minute, second) ==
    IF year = 0 THEN SysNA
    ELSE IF DatetimeValueError(year, month, day, hour, minute, second)
    THEN SysParsingError
    ELSE SysText(year, month, day, hour, minute, second)

\* struct.unpack('<HHHHHHHH', data) wants exactly 16 bytes (struct.error).
parse_systemtime_from_binary(data) ==
    IF data.t # "binary" \/ Len(data.b) < 16 THEN SysNA
    ELSE IF Len(data.b) # 16 THEN SysParsingError
    ELSE SystemtimeOf(LE16(data.b, 0), LE16(data.b, 2), LE16(data.b, 6),
                      LE16(data.b, 8), LE16(data.b, 10), LE16(data.b, 12))

\* ':'.join(f'{b:02X}' for b in mac_bytes), as characters.
RECURSIVE JoinOctets(_, _)
JoinOctets(bytes, i) ==
    IF i > Len(bytes) THEN <<>>
    ELSE (IF i = 1 THEN <<>> ELSE <<":">>)
             \o <<HexChars[(bytes[i] \div 16) + 1], HexChars[(bytes[i] % 16) + 1]>>
             \o JoinOctets(bytes, i + 1)

format_mac_address(mac_bytes) ==
    IF mac_bytes.t # "binary" \/ Len(mac_bytes.b) < 6 THEN CharsNA
    ELSE JoinOctets(mac_bytes.b, 1)

(***************************************************************************)
(* network_info_parser.run: the network connection history                 *)
(* (network_info_parser.py 181-227), one step per loop iteration.          *)
(***************************************************************************)
ProfileKey(name, ProfileName, DateCreated, DateLastConnected) ==
    [name |-> name, ProfileName |-> ProfileName, DateCreated |-> DateCreated,
     DateLastConnected |-> DateLastConnected]

SignatureKey(name, ProfileGuid, DefaultGatewayMac) ==
    [name |-> name, ProfileGuid |-> ProfileGuid, DefaultGatewayMac |-> DefaultGatewayMac]

\* The dict entry of one profile key (186-190).
p_info(profile) ==
    [name |-> get_value(profile.ProfileName, NotFound),
     created |-> parse_systemtime_from_binary(get_value(profile.DateCreated, NotFound)),
     last_connected |->
         parse_systemtime_from_binary(get_value(profile.DateLastConnected, NotFound))]

\* for profile in profiles_key.subkeys(): one iteration (185-190).
ReadProfile ==
    /\ pc = "net_profiles"
    /\ hive.profiles.exists
    /\ pos[1] <= Len(hive.profiles.subkeys)
    /\ profiles' = DictPut(profiles, Sz(hive.profiles.subkeys[pos[1]].name),
                           p_info(hive.profiles.subkeys[pos[1]]))
    /\ pos' = <<pos[1] + 1, 1>>
    /\ UNCHANGED <<img, pc, hive, history_table, has_history,
                   driverVars, runVars, storageVars, callVars>>

\* The profiles are read, or the Profiles key does not exist (191); the loop
\* over the signature namespaces starts (201).
ScanSignatures ==
    /\ pc = "net_profiles"
    /\ ~hive.profiles.exists \/ pos[1] > Len(hive.profiles.subkeys)
    /\ pc' = "net_signatures"
    /\ pos' = <<1, 1>>
    /\ UNCHANGED <<img, hive, networkVars, driverVars, runVars, storageVars, callVars>>

\* ["Signatures\\Unmanaged", "Signatures\\Managed"]
sig_path_names == <<"unmanaged", "managed">>

\* if profile_guid in profiles: ... history_table.add_row(...) (206-218)
history_row(info, signature, profile_guid) ==
    [name |-> info.name, created |-> info.created,
     last_connected |-> info.last_connected,
     gateway_mac |-> format_mac_address(get_value(signature.DefaultGatewayMac, NotFound)),
     profile_guid |-> profile_guid]

\* A join that emits one row per profile rather than one per signature.
JoinOncePerProfile(signature, profile_guid, at) ==
    IF at = 0 \/ \E k \in 1..Len(history_table) : history_table[k].profile_guid = profile_guid
    THEN UNCHANGED <<history_table, has_history>>
    ELSE /\ has_history' = TRUE
         /\ history_table' =
                Append(history_table, history_row(profiles[at].val, signature, profile_guid))

JoinSignatureOf(signature, profile_guid, at) ==
    IF at = 0
    THEN UNCHANGED <<history_table, has_history>>
    ELSE /\ has_history' = TRUE
         /\ history_table' =
                Append(history_table, history_row(profiles[at].val, signature, profile_guid))

\* for signature in signatures_key.subkeys(): one iteration (204-218).
JoinSignature ==
    /\ pc = "net_signatures"
    /\ pos[1] <= Len(sig_path_names)
    /\ hive[sig_path_names[pos[1]]].exists
    /\ pos[2] <= Len(hive[sig_path_names[pos[1]]].subkeys)
    /\ JoinSignatureOf(
           hive[sig_path_names[pos[1]]].subkeys[pos[2]],
           get_value(hive[sig_path_names[pos[1]]].subkeys[pos[2]].ProfileGuid, NotFound),
           DictIndex(profiles,
               get_value(hive[sig_path_names[pos[1]]].subkeys[pos[2]].ProfileGuid, NotFound),
               1))
    /\ pos' = <<pos[1], pos[2] + 1>>
    /\ UNCHANGED <<img, pc, hive, profiles, driverVars, runVars, storageVars, callVars>>

\* The namespace is exhausted, or its key does not exist (219): on to the
\* next namespace.
NextSignatures ==
    /\ pc = "net_signatures"
    /\ pos[1] <= Len(sig_path_names)
    /\ \/ ~hive[sig_path_names[pos[1]]].exists
       \/ pos[2] > Len(hive[sig_path_names[pos[1]]].subkeys)
    /\ pos' = <<pos[1] + 1, 1>>
    /\ UNCHANGED <<img, pc, hive, networkVars, driverVars, runVars, storageVars, callVars>>

\* if has_history: console.print(history_table) (221-224).
PrintHistory ==
    /\ pc = "net_signatures"
    /\ pos[1] > Len(sig_path_names)
    /\ pc' = "net_done"
    /\ UNCHANGED <<img, hive, pos, networkVars, driverVars, runVars, storageVars, callVars>>

(***************************************************************************)
(* The NetworkList subtrees the model draws.                               *)
(***************************************************************************)
\* SYSTEMTIME of 2023-01-15 10:30:00 (a Sunday).
ST_2023 == <<231, 7, 1, 0, 0, 0, 15, 0, 10, 0, 30, 0, 0, 0, 0, 0>>

Guid_A == "{A0A0A0A0-0000-0000-0000-000000000001}"
Guid_B == "{B0B0B0B0-0000-0000-0000-000000000002}"
Guid_C == "{C0C0C0C0-0000-0000-0000-000000000003}"

ProfileKeys ==
    {ProfileKey(Guid_A, Sz("HomeWiFi"), Binary(ST_2023), Binary(ST_2023)),
     ProfileKey(Guid_B, Absent, Binary(ZeroBytes(8)), Binary(ST_2023 \o <<0>>))}

SignatureKeys ==
    {SignatureKey(<<"0", "1">>, Sz(Guid_A), Binary(<<0, 26, 43, 60, 77, 94>>)),
     SignatureKey(<<"0", "2">>, Sz(Guid_A), Binary(<<0, 26, 43, 60, 77>>)),
     SignatureKey(<<"0", "3">>, Sz(Guid_B), Absent),
     SignatureKey(<<"0", "4">>, Sz(Guid_C), Binary(<<0, 26, 43, 60, 77, 94>>)),
     SignatureKey(<<"0", "5">>, Absent, Absent)}

ProfileSubtrees ==
    {NoSubtree} \cup {Subtree(k) : k \in Subkeys(ProfileKeys, MaxProfiles)}

SignatureSubtrees ==
    {NoSubtree} \cup {Subtree(k) : k \in Subkeys(SignatureKeys, MaxSignatures)}

\* network_info_parser.run from the start of the connection history.
InitNetwork ==
    /\ hive \in {[profiles |-> p, unmanaged |-> u, managed |-> m] :
                    p \in ProfileSubtrees, u \in SignatureSubtrees, m \in SignatureSubtrees}
    /\ pc = "net_profiles"
    /\ pos = <<1, 1>>
    /\ profiles = <<>>
    /\ history_table = <<>>
    /\ has_history = FALSE
    /\ img = <<>>
    /\ NoDriver /\ NoRun /\ NoStorage /\ NoCall

NextNetwork ==
    \/ ReadProfile
    \/ ScanSignatures
    \/ JoinSignature
    \/ NextSignatures
    \/ PrintHistory

SpecNetwork == InitNetwork /\ [][NextNetwork]_vars

(***************************************************************************)
(* Claims about the network profile correlation.                           *)
(***************************************************************************)
\* The signature keys of namespace n, and those of the first n namespaces.
NamespaceKeys(n) == hive[sig_path_names[n]].subkeys

RECURSIVE SignaturesOf(_)
SignaturesOf(n) == IF n = 0 THEN <<>> ELSE SignaturesOf(n - 1) \o NamespaceKeys(n)

\* The signature keys the loops of 201-204 have gone through so far.
Scanned ==
    IF pc = "net_signatures" /\ pos[1] <= Len(sig_path_names)
    THEN SignaturesOf(pos[1] - 1) \o SubSeq(NamespaceKeys(pos[1]), 1, pos[2] - 1)
    ELSE IF pc \in {"net_signatures", "net_done"}
    THEN SignaturesOf(Len(sig_path_names))
    ELSE <<>>

ProfileNames ==
    {Sz(hive.profiles.subkeys[i].name) : i \in 1..Len(hive.profiles.subkeys)}

\* The signature's ProfileGuid is a key of the complete profile map.
Referenced(signature) == signature.ProfileGuid \in ProfileNames

ProfileMapComplete ==
    /\ Len(profiles) = Len(hive.profiles.subkeys)
    /\ \A i \in 1..Len(profiles) :
           /\ profiles[i].key = Sz(hive.profiles.subkeys[i].name)
           /\ profiles[i].val.name =
                  get_value(hive.profiles.subkeys[i].ProfileName, NotFound)

RowJoins(row, signature) ==
    /\ row.profile_guid = signature.ProfileGuid
    /\ \E i \in 1..Len(profiles) :
           /\ profiles[i].key = signature.ProfileGuid
           /\ row.name = profiles[i].val.name
           /\ row.created = profiles[i].val.created
           /\ row.last_connected = profiles[i].val.last_connected

\* C6: no signature is read before the profile map is complete; from then on
\* the map holds every profile key, and the rows of history_table are, in scan
\* order over Unmanaged then Managed, exactly one per signature gone through
\* whose ProfileGuid is a key of the map; at the end a profile that no
\* signature of either namespace references has no row.
C6_OneRecordPerReferencingSignature ==
    /\ pc = "net_profiles" => history_table = <<>> /\ ~has_history
    /\ pc \in {"net_signatures", "net_done"} =>
           /\ ProfileMapComplete
           /\ Len(history_table) = Len(SelectSeq(Scanned, Referenced))
           /\ \A k \in 1..Len(history_table) :
                  RowJoins(history_table[k], SelectSeq(Scanned, Referenced)[k])
           /\ has_history <=> history_table # <<>>
    /\ pc = "net_done" =>
           \A name \in ProfileNames :
               (\A n \in 1..Len(sig_path_names) : \A j \in 1..Len(NamespaceKeys(n)) :
                    NamespaceKeys(n)[j].ProfileGuid # name)
                   => \A k \in 1..Len(history_table) : history_table[k].profile_guid # name

\* C6 witness: two profiles; one is referenced by a signature of each
\* namespace and has two rows, the other by none and has no row, and a
\* signature with an unknown GUID was gone through without a row.
C6_Witness ==
    /\ pc = "net_done"
    /\ Len(profiles) = 2
    /\ Len(history_table) = 2
    /\ history_table[1].profile_guid = Sz(Guid_A)
    /\ history_table[2].profile_guid = Sz(Guid_A)
    /\ Len(SelectSeq(NamespaceKeys(1), Referenced)) = 1
    /\ Len(SelectSeq(NamespaceKeys(2), Referenced)) = 1
    /\ Len(Scanned) > 2

(***************************************************************************)
(* One account subkey decoded on its own (sam_parser.py 61-85 and 92-114), *)
(* and filetime_to_datetime called on its own.                             *)
(***************************************************************************)
AccountOutput(step) == [step |-> step, report |-> sam_report(step.user)]

\* One iteration of the loop over users_key.subkeys(), and the report of the
\* user it appended.
DecodeAccount ==
    /\ pc = "account"
    /\ output' = AccountOutput(sam_user([hashRids |-> {500}], input.key))
    /\ pc' = "account_done"
    /\ UNCHANGED <<img, input, driverVars, runVars, loopVars, storageVars, networkVars>>

ConvertFiletime ==
    /\ pc = "filetime"
    /\ output' = filetime_to_datetime(input)
    /\ pc' = "filetime_done"
    /\ UNCHANGED <<img, input, driverVars, runVars, loopVars, storageVars, networkVars>>

\* The account subkeys the model draws: the F fields and the UserName
\* (offset, length) pair of V are drawn, the blobs are laid out from them.
Bytes16(n) == <<n % 256, n \div 256>>
Bytes32(n) == Bytes16(n) \o <<0, 0>>

VData == <<65, 0, 98, 0, 67, 0>>       \* "AbC" in UTF-16-LE

AccountInput(flen, lastLogon, pwdLastSet, expires, lastBad, uac, bad, logins, vhdr, u) ==
    [flen |-> flen, lastLogon |-> lastLogon, pwdLastSet |-> pwdLastSet,
     expires |-> expires, lastBad |-> lastBad, uac |-> uac, bad |-> bad,
     logins |-> logins, vhdr |-> vhdr, uOff |-> u[1], uLen |-> u[2],
     key |-> UserKey(Name_3E9,
                 Binary(MkF(flen, lastLogon, pwdLastSet, expires, lastBad, uac, bad, logins)),
                 Binary(MkV(vhdr, u[1], u[2], Bytes32(4), Bytes32(2), Bytes32(0), Bytes32(0),
                            IF vhdr = VBase THEN VData ELSE <<>>)))]

FLengths == {67, 68, 80}
UacValues == {<<0, 0, 0, 0>>, <<2, 0, 0, 0>>, <<0, 0, 1, 0>>, <<18, 2, 1, 0>>, <<253, 255, 254, 255>>}
UserNamePairs ==
    {<<Bytes32(0), Bytes32(4)>>,                \* "Ab"
     <<Bytes32(0), Bytes32(6)>>,                \* the whole of the data
     <<Bytes32(0), Bytes32(3)>>,                \* an odd number of bytes
     <<Bytes32(0), Bytes32(0)>>,                \* length 0
     <<Bytes32(2), Bytes32(8)>>,                \* starts inside, ends past the end
     <<Bytes32(6), Bytes32(2)>>,                \* starts at the end
     <<Bytes32(100), Bytes32(8)>>,              \* starts past the end
     <<<<255, 255, 255, 255>>, Bytes32(4)>>}    \* offset 0xFFFFFFFF

AccountInputs ==
    {AccountInput(flen, lastLogon, pwdLastSet, FT_Never, lastBad, uac, bad, logins, VBase, u) :
        flen \in FLengths, lastLogon \in {FT_Zero, FT_2023, FT_Over},
        pwdLastSet \in {FT_2023, FT_Never}, lastBad \in {FT_Zero, FT_Ones},
        uac \in UacValues, bad \in {Bytes16(0), Bytes16(65535)},
        logins \in {Bytes16(7), Bytes16(258)}, u \in UserNamePairs}
    \cup
    {AccountInput(flen, FT_2023, FT_2023, FT_Last, FT_Zero, <<2, 0, 0, 0>>, Bytes16(1),
                  Bytes16(258), 10, <<Bytes32(0), Bytes32(4)>>) : flen \in FLengths}

InitAccount ==
    /\ input \in AccountInputs
    /\ output = <<>>
    /\ pc = "account"
    /\ img = <<>>
    /\ NoDriver /\ NoRun /\ NoLoop /\ NoStorage /\ NoNetwork

NextAccount == DecodeAccount

SpecAccount == InitAccount /\ [][NextAccount]_vars

\* The 64-bit counts the model draws, as limbs: sentinels, both sides of the
\* last representable instant, and the extremes.
FiletimeInputs ==
    {<<a, b, c, d>> : a \in {0, 473, 9416, 32767, 65535}, b \in {0, 23134, 65535},
                      c \in {0, 53696, 65535}, d \in {0, 9, 10, 16383, 16384, 65535}}
        \cup {LE64(FT_2023, 0)}

InitFiletime ==
    /\ input \in FiletimeInputs
    /\ output = <<>>
    /\ pc = "filetime"
    /\ img = <<>>
    /\ NoDriver /\ NoRun /\ NoLoop /\ NoStorage /\ NoNetwork

NextFiletime == ConvertFiletime

SpecFiletime == InitFiletime /\ [][NextFiletime]_vars

(***************************************************************************)
(* Claims about the account record and the FILETIME conversion.            *)
(***************************************************************************)
\* C8: an F value of at least 68 bytes is decoded without error, every field
\* coming from its offset (LastLogon 8, PwdLastSet 24, AccountExpires 32,
\* LastIncorrectPassword 40, UserAccountControl 48, BadPasswordCount 64,
\* LoginCount 66), and the report says "Yes" for 'Account Disabled' and
\* 'Password Never Expires' exactly when bit 0x2, respectively 0x10000, of the
\* control flags is set.
C8_FBlobDecodedAtFixedOffsets ==
    (pc = "account_done" /\ input.flen >= 68) =>
        /\ output.step.exc = "none"
        /\ ~output.step.skip
        /\ output.step.user.LastLogon = filetime_to_datetime(LE64(input.lastLogon, 0))
        /\ output.step.user.PwdLastSet = filetime_to_datetime(LE64(input.pwdLastSet, 0))
        /\ output.step.user.AccountExpires = filetime_to_datetime(LE64(input.expires, 0))
        /\ output.step.user.LastIncorrectPassword
               = filetime_to_datetime(LE64(input.lastBad, 0))
        /\ output.step.user.UserAccountControl = LE32(input.uac, 0)
        /\ output.step.user.BadPasswordCount = input.bad[1] + 256 * input.bad[2]
        /\ output.step.user.LoginCount = input.logins[1] + 256 * input.logins[2]
        /\ output.report.AccountDisabled = "Yes" <=> (input.uac[1] \div 2) % 2 = 1
        /\ output.report.PasswordNeverExpires = "Yes" <=> input.uac[3] % 2 = 1
        /\ output.report.AccountDisabled \in {"Yes", "No"}
        /\ output.report.PasswordNeverExpires \in {"Yes", "No"}

\* C8 witness: an F value of exactly 68 bytes, decoded: 258 logins, 65535 bad
\* passwords, a last logon in 2023, the account disabled, the password expiring.
C8_Witness ==
    /\ pc = "account_done"
    /\ input.flen = 68
    /\ output.step.exc = "none"
    /\ output.step.user.LoginCount = 258
    /\ output.step.user.BadPasswordCount = 65535
    /\ output.step.user.LastLogon.k = "datetime"
    /\ output.report.AccountDisabled = "Yes"
    /\ output.report.PasswordNeverExpires = "No"

\* The UserName range 0xCC + offsetField .. + lengthField lies wholly inside V.
UserNameInsideBlob ==
    /\ input.uOff[3] = 0 /\ input.uOff[4] = 0 /\ input.uLen[3] = 0 /\ input.uLen[4] = 0
    /\ VBase + LE16(input.uOff, 0) + LE16(input.uLen, 0) <= Len(input.key.V.b)

\* C9: when the UserName range is not wholly inside the V blob, UserName is
\* None (not an empty or a truncated string), nothing is raised, and the rest
\* of the record (the other strings, the login count) is populated.
C9_StringOutsideBlobIsNone ==
    (pc = "account_done" /\ input.flen >= 68 /\ input.vhdr = VBase /\ ~UserNameInsideBlob) =>
        /\ output.step.exc = "none"
        /\ output.step.user.UserName = StrNone
        /\ output.step.user.FullName = StrOf(<<67>>)
        /\ output.step.user.LoginCount = input.logins[1] + 256 * input.logins[2]

\* 0x24C85A5ED1C03FFF, the last FILETIME within datetime's range
\* (9999-12-31 23:59:59.9999999), as limbs.
MaxFiletime == <<9416, 23134, 53696, 16383>>

\* 10 * w + r on limbs, for w < 2^64 / 10.
Times10Plus(w, r) ==
    <<(w[1] * 10 + ((w[2] * 10 + ((w[3] * 10 + ((w[4] * 10 + r) \div 65536)) \div 65536))
                       \div 65536)) % 65536,
      (w[2] * 10 + ((w[3] * 10 + ((w[4] * 10 + r) \div 65536)) \div 65536)) % 65536,
      (w[3] * 10 + ((w[4] * 10 + r) \div 65536)) % 65536,
      (w[4] * 10 + r) % 65536>>

\* C10: filetime_to_datetime gives None for 0, for 0x7FFFFFFFFFFFFFFF and for
\* every count past the last representable instant; for every 64-bit count it
\* gives None or the instant count // 10 microseconds after 1601-01-01, and
\* never raises.
C10_FiletimeToDatetimeNeverRaises ==
    pc = "filetime_done" =>
        /\ output.k \in {"None", "datetime"}
        /\ input \in {Zero64, Never64} => output = DtNone
        /\ ~LimbsLeq(input, MaxFiletime) => output = DtNone
        /\ (LimbsLeq(input, MaxFiletime) /\ input \notin {Zero64, Never64}) =>
               /\ output.k = "datetime"
               /\ \E r \in 0..9 : Times10Plus(output.us, r) = input

\* C10 witness: the count just past the last representable instant, converted
\* to None.
C10_Witness ==
    /\ pc = "filetime_done"
    /\ input = <<9416, 23134, 53696, 16384>>
    /\ output = DtNone

(***************************************************************************)
(* utils.format_filetime (utils.py 93-101), and the loops of               *)
(* bam_parser.run over the SID keys and their values (42-74).              *)
(***************************************************************************)
\* What format_filetime does: k is "N/A", "Invalid Timestamp", "text" (the
\* instant formatted, sec its whole seconds since 1601-01-01) or "raise"
\* (the exception exc left the function).
FtResult(k, sec, exc) == [k |-> k, sec |-> sec, exc |-> exc]

\* try: return (<sum>).strftime('%Y-%m-%d %H:%M:%S')
\* except (ValueError, OSError): return "Invalid Timestamp"
FormatFiletimeTry(sum) ==
    IF sum.exc = "none" THEN FtResult("text", DivPow10(sum.dt.us, 6), "none")
    ELSE IF sum.exc \in FormatFiletimeCaught THEN FtResult("Invalid Timestamp", Zero64, "none")
    ELSE FtResult("raise", Zero64, sum.exc)

format_filetime(filetime) ==
    IF filetime = Zero64 THEN FtResult("N/A", Zero64, "none")
    ELSE FormatFiletimeTry(EpochPlusMicroseconds(DivMod10(filetime).q))

\* A registry value of a key that the code enumerates with key.values().
Value(name, data) == [name |-> name, data |-> data]

\* The state of the loop over sid_key.values(): the rows added to bam_table
\* and the exception that left the loop ("none" if none did).
BamTable(rows, exc) == [rows |-> rows, exc |-> exc]

\* exec_time = format_filetime(filetime); bam_table.add_row(exec_time, exec_path)
BamAddRow(table, exec_time, exec_path) ==
    IF exec_time.k = "raise" THEN BamTable(table.rows, exec_time.exc)
    ELSE BamTable(Append(table.rows, [exec_time |-> exec_time, exec_path |-> exec_path]), "none")

\* A value the loop makes a row of (52, 57).
BamEntry(value) ==
    /\ value.name \notin {"Version", "SequenceNumber", "(default)"}
    /\ value.data.t = "binary"
    /\ Len(value.data.b) >= 8

\* for value in sid_key.values(): ... (51-61)
RECURSIVE BamValues(_, _)
BamValues(table, values) ==
    IF values = <<>> \/ table.exc # "none" THEN table
    ELSE IF BamEntry(Head(values))
         THEN BamValues(BamAddRow(table, format_filetime(LE64(Head(values).data.b, 0)),
                                  Head(values).name),
                        Tail(values))
         ELSE BamValues(table, Tail(values))

\* for sid_key in bam_key.subkeys(): ... (42-67): the tables printed so far
\* (one per SID key, empty for "No execution entries found"), and the
\* exception that left the loop.
BamPrinted(printed, table) ==
    IF table.exc # "none" THEN [printed |-> printed, exc |-> table.exc]
    ELSE [printed |-> Append(printed, table.rows), exc |-> "none"]

RECURSIVE BamSids(_, _)
BamSids(report, sids) ==
    IF sids = <<>> \/ report.exc # "none" THEN report
    ELSE BamSids(BamPrinted(report.printed, BamValues(BamTable(<<>>, "none"), Head(sids))),
                 Tail(sids))

\* return True (69) / except Exception: print_error(...); return False (71-74)
BamReturn(report) ==
    [ret |-> IF report.exc = "none" THEN "True"
             ELSE IF print_error(1) = "none" THEN "False" ELSE "Raise",
     printed |-> report.printed]

bam_report(sids) == BamReturn(BamSids([printed |-> <<>>, exc |-> "none"], sids))

\* format_filetime called on its own.
FormatFiletime ==
    /\ pc = "format_filetime"
    /\ output' = format_filetime(input)
    /\ pc' = "format_filetime_done"
    /\ UNCHANGED <<img, input, driverVars, runVars, loopVars, storageVars, networkVars>>

\* The report of bam_parser.run over the SID keys of UserSettings.
DecodeBam ==
    /\ pc = "bam"
    /\ output' = bam_report(input)
    /\ pc' = "bam_done"
    /\ UNCHANGED <<img, input, driverVars, runVars, loopVars, storageVars, networkVars>>

MaxValues == 2      \* values below one BAM SID key

\* The values the model draws for a BAM SID key.
BamValueCandidates ==
    {Value("Version", Dword(1)),
     Value("a.exe", Binary(FT_2023)),
     Value("b.exe", Binary(FT_Never)),
     Value("c.exe", Binary(FT_Over)),
     Value("d.exe", Binary(FT_Zero)),
     Value("e.exe", Binary(<<1, 2, 3>>))}

\* Two SID keys, each with up to MaxValues values.
BamInputs ==
    {<<first, second>> : first \in Subkeys(BamValueCandidates, MaxValues),
                         second \in Subkeys(BamValueCandidates, MaxValues)}

InitFormatFiletime ==
    /\ \/ pc = "format_filetime" /\ input \in FiletimeInputs
       \/ pc = "bam" /\ input \in BamInputs
    /\ output = <<>>
    /\ img = <<>>
    /\ NoDriver /\ NoRun /\ NoLoop /\ NoStorage /\ NoNetwork

NextFormatFiletime == FormatFiletime \/ DecodeBam

SpecFormatFiletime == InitFormatFiletime /\ [][NextFormatFiletime]_vars

(***************************************************************************)
(* Claims about format_filetime and the BAM report.                        *)
(***************************************************************************)
\* The values of the SID keys of `sids` that the loop makes a row of.
RECURSIVE BamEntries(_)
BamEntries(values) ==
    IF values = <<>> THEN <<>>
    ELSE IF BamEntry(Head(values)) THEN <<Head(values)>> \o BamEntries(Tail(values))
    ELSE BamEntries(Tail(values))

\* C11: for every 64-bit count at the timestamp offset, 0x7FFFFFFFFFFFFFFF and
\* every count past the last representable instant included, format_filetime
\* returns a formatted instant or the absent/invalid marker and never raises,
\* so an out-of-range timestamp does not abort the remaining entries: the BAM
\* report returns True with one row for every entry of every SID key.
C11_FormatFiletimeNeverRaises ==
    /\ pc = "format_filetime_done" => output.k \in {"N/A", "Invalid Timestamp", "text"}
    /\ pc = "bam_done" =>
           /\ output.ret = "True"
           /\ Len(output.printed) = Len(input)
           /\ \A i \in 1..Len(input) :
                  Len(output.printed[i]) = Len(BamEntries(input[i]))

\* The instant of a datetime re-encoded as a FILETIME: its count of 100 ns
\* intervals since 1601-01-01 UTC, ten per microsecond.
EncodeFiletime(dt) == Times10Plus(dt.us, 0)

\* C12: for every valid FILETIME other than 0 and 0x7FFFFFFFFFFFFFFF, decoding
\* with filetime_to_datetime and re-encoding the instant as a count of 100 ns
\* intervals gives the same count again.
C12_DecodeEncodeRoundTrip ==
    (pc = "filetime_done" /\ LimbsLeq(input, MaxFiletime) /\ input \notin {Zero64, Never64}) =>
        /\ output.k = "datetime"
        /\ EncodeFiletime(output) = input

(***************************************************************************)
(* The formatters of utils.py called on their own: each call takes its     *)
(* argument from `input` and leaves what it returned in `output`.          *)
(***************************************************************************)
\* A number as decimal characters, zero-padded to at least `width`.
RECURSIVE ZeroPad(_, _)
ZeroPad(digits, width) ==
    IF Len(digits) >= width THEN digits ELSE ZeroPad(<<0>> \o digits, width)

DecimalChars(digits) == [i \in 1..Len(digits) |-> HexChars[digits[i] + 1]]

\* strftime's %Y: the C library formats it.  glibc prints a year below 1000
\* without padding ("999"); other C libraries pad it to four digits.
StrftimeYear(year, glibc) ==
    IF glibc THEN DecimalChars(Digits(year)) ELSE DecimalChars(ZeroPad(Digits(year), 4))

\* %m, %d, %H, %M and %S: two digits.
Strftime2(n) == DecimalChars(ZeroPad(Digits(n), 2))

\* The string parse_systemtime_from_binary returns (utils.py 183, 190, 192, 194):
\* datetime(...).strftime('%Y-%m-%d %H:%M:%S') for a date, else its marker.
SystemtimeChars(sys, glibc) ==
    IF sys.k = "N/A" THEN CharsNA
    ELSE IF sys.k = "[Parsing Error]"
    THEN <<"[", "P", "a", "r", "s", "i", "n", "g", " ", "E", "r", "r", "o", "r", "]">>
    ELSE StrftimeYear(sys.date[1], glibc) \o <<"-">> \o Strftime2(sys.date[2]) \o <<"-">>
             \o Strftime2(sys.date[3]) \o <<" ">> \o Strftime2(sys.time[1]) \o <<":">>
             \o Strftime2(sys.time[2]) \o <<":">> \o Strftime2(sys.time[3])

ParseSystemtime ==
    /\ pc = "systemtime"
    /\ \E glibc \in BOOLEAN :
           output' = SystemtimeChars(parse_systemtime_from_binary(input), glibc)
    /\ pc' = "systemtime_done"
    /\ UNCHANGED <<img, input, driverVars, runVars, loopVars, storageVars, networkVars>>

\* A SYSTEMTIME: eight little-endian 16-bit fields.
Systemtime(year, month, dayOfWeek, day, hour, minute, second, milliseconds) ==
    Bytes16(year) \o Bytes16(month) \o Bytes16(dayOfWeek) \o Bytes16(day)
        \o Bytes16(hour) \o Bytes16(minute) \o Bytes16(second) \o Bytes16(milliseconds)

\* The arguments the model draws: blobs of 16 bytes (dates, impossible dates,
\* year 0), truncated and over-long blobs, and values that are not bytes.
SystemtimeInputs ==
    {Binary(Systemtime(year, month, dayOfWeek, day, hour, minute, second, milliseconds)) :
        year \in {0, 999, 1000, 2023, 2024, 9999, 10000}, month \in {0, 1, 2, 12, 13},
        dayOfWeek \in {0, 6}, day \in {0, 15, 29, 31}, hour \in {10, 24},
        minute \in {30, 60}, second \in {0, 60}, milliseconds \in {0, 999}}
    \cup {Binary(SubSeq(ST_2023, 1, n)) : n \in {0, 8, 15}}
    \cup {Binary(ST_2023 \o <<0>>), Sz("2023-01-15"), Dword(2023), Absent}

(***************************************************************************)
(* codecs.decode(value.name(), 'rot_13') (user_activity_parser.py 55).     *)
(***************************************************************************)
Lowercase == <<"a", "b", "c", "d", "e", "f", "g", "h", "i", "j", "k", "l", "m",
               "n", "o", "p", "q", "r", "s", "t", "u", "v", "w", "x", "y", "z">>
Uppercase == <<"A", "B", "C", "D", "E", "F", "G", "H", "I", "J", "K", "L", "M",
               "N", "O", "P", "Q", "R", "S", "T", "U", "V", "W", "X", "Y", "Z">>

\* The 1-based position of c in the alphabet, 0 when it is not in it.
LetterIndex(c, alphabet) ==
    IF \E i \in 1..26 : alphabet[i] = c THEN CHOOSE i \in 1..26 : alphabet[i] = c ELSE 0

\* A decoding table that rotates the capital letters only.
Rot13UppercaseOnly(c) ==
    IF LetterIndex(c, Uppercase) # 0
    THEN Uppercase[((LetterIndex(c, Uppercase) + 12) % 26) + 1]
    ELSE c

\* The decoding table of the rot_13 codec: every ASCII letter is mapped to the
\* letter 13 places on in its own alphabet, every other character to itself.
Rot13Char(c) ==
    IF LetterIndex(c, Uppercase) # 0
    THEN Uppercase[((LetterIndex(c, Uppercase) + 12) % 26) + 1]
    ELSE IF LetterIndex(c, Lowercase) # 0
    THEN Lowercase[((LetterIndex(c, Lowercase) + 12) % 26) + 1]
    ELSE c

rot_13(name) == [i \in 1..Len(name) |-> Rot13Char(name[i])]

\* decoded_name = codecs.decode(value.name(), 'rot_13')
DecodeName ==
    /\ pc = "rot_13"
    /\ output' = rot_13(input)
    /\ pc' = "rot_13_done"
    /\ UNCHANGED <<img, input, driverVars, runVars, loopVars, storageVars, networkVars>>

MaxName == 2        \* length of the value names drawn from NameChars

\* Characters other than letters, those next to the alphabets in ASCII included.
OtherChars == <<"@", "[", "{", "0", "9", "\\", ".", " ", "_">>
NameChars == {"U", "r", "H", "f", "1", ":"}

\* The value names the model draws: every letter and some other characters on
\* their own, short names, and some names of UserAssist.
NameInputs ==
    {<<Lowercase[i]>> : i \in 1..26} \cup {<<Uppercase[i]>> : i \in 1..26}
        \cup {<<OtherChars[i]>> : i \in 1..Len(OtherChars)}
        \cup SeqsUpTo(NameChars, MaxName)
        \cup {<<"U", "r", "e", "r">>, <<"H", "f", "r", "e">>, <<"U", "s", "e", "r">>,
              <<"{", "H", "R", "Z", "R">>, <<"P", ":", "\\", "p", "z", "q", ".", "r", "k", "r">>}

\* format_mac_address called on its own.
FormatMac ==
    /\ pc = "mac"
    /\ output' = format_mac_address(input)
    /\ pc' = "mac_done"
    /\ UNCHANGED <<img, input, driverVars, runVars, loopVars, storageVars, networkVars>>

Mac_001A == <<0, 26, 43, 60, 77, 94>>                  \* 00:1A:2B:3C:4D:5E

\* The arguments the model draws: byte strings of 0 to 8 bytes, and values
\* that are not bytes.
MacInputs ==
    {Binary(SubSeq(Mac_001A \o <<255, 9>>, 1, n)) : n \in 0..8}
        \cup {Binary(<<255, 255, 255, 255, 255, 255>>), Binary(ZeroBytes(6)),
              Sz("00:1A:2B:3C:4D:5E"), Dword(6), Absent}

(***************************************************************************)
(* utils.clean_multi_sz (utils.py 60-64).  A list is the data of a         *)
(* REG_MULTI_SZ value; the result is a sequence of values.                 *)
(***************************************************************************)
\* bool(value) of a registry value's data.
ValueTruth(value) ==
    IF value.t = "sz" THEN value.s # ""
    ELSE IF value.t = "dword" THEN value.n # 0
    ELSE IF value.t \in {"binary", "multi_sz"} THEN value.b # <<>>
    ELSE TRUE

\* [item for item in value if item]
RECURSIVE NonEmptyItems(_)
NonEmptyItems(items) ==
    IF items = <<>> THEN <<>>
    ELSE IF Head(items) # "" THEN <<Sz(Head(items))>> \o NonEmptyItems(Tail(items))
    ELSE NonEmptyItems(Tail(items))

clean_multi_sz(value) ==
    IF value.t # "multi_sz"
    THEN (IF ValueTruth(value) /\ value # Sz("N/A") THEN <<value>> ELSE <<>>)
    ELSE NonEmptyItems(value.b)

CleanMultiSz ==
    /\ pc = "multi_sz"
    /\ output' = clean_multi_sz(input)
    /\ pc' = "multi_sz_done"
    /\ UNCHANGED <<img, input, driverVars, runVars, loopVars, storageVars, networkVars>>

MaxItems == 3       \* strings in one REG_MULTI_SZ value

\* The arguments the model draws: lists of strings, and scalars.
MultiSzInputs ==
    {MultiSz(l) : l \in SeqsUpTo({"", "a", "b", "N/A"}, MaxItems)}
        \cup {Sz(""), Sz("x"), Sz("N/A"), Sz("Not Found"), Dword(0), Dword(5),
              Binary(<<>>), Binary(<<1>>)}

(***************************************************************************)
(* utils.get_user_profiles (utils.py 125-175), on a POSIX host (os.path is *)
(* posixpath).  A path is a sequence of pieces: a separator, a colon, a    *)
(* letter or a dot is a piece of one character, a name or a token such as  *)
(* "%SystemRoot%" is one piece.                                            *)
(***************************************************************************)
\* str.replace(old, new) where old is one piece.
Replace(path, old, new) == [i \in 1..Len(path) |-> IF path[i] = old THEN new ELSE path[i]]

\* A clean_path that keeps the backslashes (149 left out).
CleanPathKeepsBackslashes(profile_path_raw) ==
    Replace(Replace(profile_path_raw, "%SystemRoot%", "Windows"), "%systemroot%", "Windows")

\* clean_path (149-151)
clean_path(profile_path_raw) ==
    Replace(Replace(Replace(profile_path_raw, "\\", "/"), "%SystemRoot%", "Windows"),
            "%systemroot%", "Windows")

\* re.sub(r'^[a-zA-Z]:/', '', clean_path) (154)
path_no_drive(path) ==
    IF /\ Len(path) >= 3
       /\ LetterIndex(path[1], Uppercase) # 0 \/ LetterIndex(path[1], Lowercase) # 0
       /\ path[2] = ":"
       /\ path[3] = "/"
    THEN Slice(path, 3, Len(path))
    ELSE path

\* str.lstrip('/') and str.strip('/')
RECURSIVE LStripSlash(_)
LStripSlash(path) ==
    IF path # <<>> /\ Head(path) = "/" THEN LStripSlash(Tail(path)) ELSE path

RECURSIVE StripSlash(_)
StripSlash(path) ==
    IF path # <<>> /\ path[Len(path)] = "/" THEN StripSlash(SubSeq(path, 1, Len(path) - 1))
    ELSE LStripSlash(path)

\* posixpath.join(a, b)
path_join(a, b) ==
    IF b # <<>> /\ Head(b) = "/" THEN b
    ELSE IF a = <<>> \/ a[Len(a)] = "/" THEN a \o b
    ELSE a \o <<"/">> \o b

\* path.split('/'): the components, `comp` being the one in progress.
RECURSIVE SplitSlash(_, _)
SplitSlash(path, comp) ==
    IF path = <<>> THEN <<comp>>
    ELSE IF Head(path) = "/" THEN <<comp>> \o SplitSlash(Tail(path), <<>>)
    ELSE SplitSlash(Tail(path), Append(comp, Head(path)))

\* The loop of posixpath.normpath over the components.
RECURSIVE NormComps(_, _, _)
NormComps(comps, new_comps, initial_slashes) ==
    IF comps = <<>> THEN new_comps
    ELSE IF Head(comps) \in {<<>>, <<".">>}
    THEN NormComps(Tail(comps), new_comps, initial_slashes)
    ELSE IF \/ Head(comps) # <<"..">>
            \/ (initial_slashes = 0 /\ new_comps = <<>>)
            \/ (new_comps # <<>> /\ new_comps[Len(new_comps)] = <<"..">>)
    THEN NormComps(Tail(comps), Append(new_comps, Head(comps)), initial_slashes)
    ELSE IF new_comps # <<>>
    THEN NormComps(Tail(comps), SubSeq(new_comps, 1, Len(new_comps) - 1), initial_slashes)
    ELSE NormComps(Tail(comps), new_comps, initial_slashes)

\* '/'.join(comps)
RECURSIVE JoinSlash(_)
JoinSlash(comps) ==
    IF comps = <<>> THEN <<>>
    ELSE IF Len(comps) = 1 THEN Head(comps)
    ELSE Head(comps) \o <<"/">> \o JoinSlash(Tail(comps))

\* POSIX keeps two leading slashes, and treats three or more as one.
InitialSlashes(path) ==
    IF path = <<>> \/ Head(path) # "/" THEN 0
    ELSE IF Len(path) >= 2 /\ path[2] = "/" /\ ~(Len(path) >= 3 /\ path[3] = "/") THEN 2
    ELSE 1

OrDot(path) == IF path = <<>> THEN <<".">> ELSE path

\* posixpath.normpath
normpath(path) ==
    OrDot([i \in 1..InitialSlashes(path) |-> "/"]
              \o JoinSlash(NormComps(SplitSlash(path, <<>>), <<>>, InitialSlashes(path))))

\* posixpath.basename
RECURSIVE basename(_)
basename(path) ==
    IF path = <<>> \/ path[Len(path)] = "/" THEN <<>>
    ELSE Append(basename(SubSeq(path, 1, Len(path) - 1)), path[Len(path)])

\* final_profile_path (158-159)
final_profile_path(image_root, profile_path_raw) ==
    normpath(path_join(image_root, StripSlash(path_no_drive(clean_path(profile_path_raw)))))

\* The dict appended to user_profiles (161-170).
UserProfile(sid, final) ==
    [username |-> basename(final),
     sid |-> sid,
     profile_path |-> final,
     ntuser_path |-> path_join(final, <<"NTUSER.DAT">>),
     usrclass_path |-> path_join(path_join(path_join(path_join(path_join(final,
                           <<"AppData">>), <<"Local">>), <<"Microsoft">>), <<"Windows">>),
                           <<"UsrClass.dat">>)]

\* A subkey of ProfileList: its name and its ProfileImagePath value.
SidKey(name, present, s) == [name |-> name, ProfileImagePath |-> [present |-> present, s |-> s]]

\* for sid_key in profile_list_key.subkeys(): ... (142-170); a key without
\* the value, or with an empty one, is passed over (143-144).
RECURSIVE ProfilesOf(_, _)
ProfilesOf(image_root, sid_keys) ==
    IF sid_keys = <<>> THEN <<>>
    ELSE IF ~Head(sid_keys).ProfileImagePath.present \/ Head(sid_keys).ProfileImagePath.s = <<>>
    THEN ProfilesOf(image_root, Tail(sid_keys))
    ELSE <<UserProfile(Head(sid_keys).name,
                       final_profile_path(image_root, Head(sid_keys).ProfileImagePath.s))>>
             \o ProfilesOf(image_root, Tail(sid_keys))

\* What a call returned, or the exception that left it.
Returned2(exc, user_profiles) == [exc |-> exc, user_profiles |-> user_profiles]

\* print_error(message, console), then the return that follows it (134-135,
\* 173-175).
AfterPrintError(user_profiles) == Returned2(print_error(2), user_profiles)

get_user_profiles(im) ==
    IF ~im.software_exists THEN AfterPrintError(<<>>)
    ELSE IF ~im.profile_list_opens THEN AfterPrintError(<<>>)
    ELSE Returned2("none", ProfilesOf(im.image_root, im.sid_keys))

GetUserProfiles ==
    /\ pc = "get_user_profiles"
    /\ output' = get_user_profiles(input)
    /\ pc' = "get_user_profiles_done"
    /\ UNCHANGED <<img, input, driverVars, runVars, loopVars, storageVars, networkVars>>

MaxSids == 2        \* subkeys of ProfileList

Root_mnt_img == <<"/", "mnt", "/", "img">>

\* The subkeys of ProfileList the model draws.
SidKeyCandidates ==
    {SidKey("S-1-5-21-1001", TRUE, <<"%SystemRoot%", "\\", "Users", "\\", "Alice">>),
     SidKey("S-1-5-21-1002", TRUE, <<"C", ":", "\\", "Users", "\\", "Bob">>),
     SidKey("S-1-5-21-1003", TRUE, <<"c", ":", "\\", "Users", "\\", "Bob", "\\">>),
     SidKey("S-1-5-21-1004", TRUE, <<"C", ":", "\\", "D", ":", "\\", "Users", "\\", "X">>),
     SidKey("S-1-5-21-1005", TRUE, <<"\\", "\\", "srv", "\\", "share", "\\", "U">>),
     SidKey("S-1-5-21-1006", TRUE, <<"C", ":", "\\", "Users", "\\", "..", "\\", "..", "\\", "etc">>),
     SidKey("S-1-5-21-1007", TRUE, <<"1", ":", "\\", "Users", "\\", "Bob">>),
     SidKey("S-1-5-21-1008", TRUE, <<"C", ":", "Users", "\\", "Bob">>),
     SidKey("S-1-5-21-1009", TRUE, <<"C", ":", "\\">>),
     SidKey("S-1-5-20", TRUE, <<"%systemroot%", "\\", "ServiceProfiles", "\\", "LocalService">>),
     SidKey("S-1-5-19", TRUE, <<>>),
     SidKey("S-1-5-18", FALSE, <<>>)}

\* The images the model draws: the SOFTWARE hive missing, present without a
\* ProfileList key that opens, or present with one.
ProfileInputs ==
    {[image_root |-> image_root, software_exists |-> state[1],
      profile_list_opens |-> state[2], sid_keys |-> sid_keys] :
        image_root \in {Root_mnt_img, Root_mnt_img \o <<"/">>},
        state \in {<<FALSE, FALSE>>, <<TRUE, FALSE>>, <<TRUE, TRUE>>},
        sid_keys \in Subkeys(SidKeyCandidates, MaxSids)}

(***************************************************************************)
(* user_activity_parser.run: for every profile, the UserAssist, RunMRU,    *)
(* TypedPaths and WordWheelQuery sections of its NTUSER.DAT.               *)
(***************************************************************************)
\* The rows added to ua_table for one Count key and the exception that left
\* the loop over its values ("none" if none did).
UaTable(rows, exc) == [rows |-> rows, exc |-> exc]

\* last_run = format_filetime(filetime)
\* if run_count > 0: ua_table.add_row(decoded_name, str(run_count), last_run)
\* (60-64); run_count is the pair <<high 16 bits, low 16 bits>>.
UaAddRow(table, decoded_name, run_count, last_run) ==
    IF last_run.k = "raise" THEN UaTable(table.rows, last_run.exc)
    ELSE IF run_count = <<0, 0>> THEN table
    ELSE UaTable(Append(table.rows, [decoded_name |-> decoded_name,
                                      run_count |-> run_count,
                                      last_run |-> last_run]), "none")

\* The body of `for value in count_key.values()` (54-64); len() of the int
\* that a REG_DWORD gives raises TypeError.
UaValue(table, value) ==
    IF value.data.t = "dword" THEN UaTable(table.rows, "TypeError")
    ELSE IF ~(Len(value.data.b) >= 72) THEN table
    ELSE UaAddRow(table, rot_13(value.name), LE32(value.data.b, 4),
                  format_filetime(LE64(value.data.b, 60)))

RECURSIVE UaValues(_, _)
UaValues(table, values) ==
    IF values = <<>> \/ table.exc # "none" THEN table
    ELSE UaValues(UaValue(table, Head(values)), Tail(values))

\* if ua_table.row_count > 0: console.print(ua_table) (65); an exception
\* other than RegistryKeyNotFoundException leaves the loop over the GUID keys.
UaPrint(report, table) ==
    IF table.exc # "none" THEN [report EXCEPT !.exc = table.exc]
    ELSE IF table.rows = <<>> THEN report
    ELSE [report EXCEPT !.printed = Append(@, table.rows)]

\* for guid_key in ua_key.subkeys() (49-66): a GUID key without a Count
\* subkey is passed over.
RECURSIVE UaGuidKeys(_, _)
UaGuidKeys(report, guid_keys) ==
    IF guid_keys = <<>> \/ report.exc # "none" THEN report
    ELSE IF ~Head(guid_keys).Count.exists THEN UaGuidKeys(report, Tail(guid_keys))
    ELSE UaGuidKeys(UaPrint(report, UaValues(UaTable(<<>>, "none"), Head(guid_keys).Count.values)),
                    Tail(guid_keys))

\* The UserAssist section (45-67).
user_assist(ua_key) ==
    IF ~ua_key.exists THEN [printed |-> <<>>, exc |-> "none"]
    ELSE UaGuidKeys([printed |-> <<>>, exc |-> "none"], ua_key.subkeys)

\* get_value(key, name) over the values of an enumerated key, by name.
RECURSIVE ValueNamed(_, _)
ValueNamed(values, name) ==
    IF values = <<>> THEN Absent
    ELSE IF Head(values).name = name THEN Head(values).data
    ELSE ValueNamed(Tail(values), name)

\* command.rsplit('\\', 1)[0] if command.endswith('\\1') else command (85)
clean_command(command) ==
    IF EndsWith(command, <<"\\", "1">>) THEN SubSeq(command, 1, Len(command) - 2) ELSE command

\* The RunMRU section (70-101): one row for every character of MRUList; a
\* command that is missing is the default of get_value.
run_mru(runmru_key) ==
    IF ~runmru_key.exists THEN <<>>
    ELSE [i \in 1..Len(runmru_key.MRUList) |->
             [order |-> runmru_key.MRUList[i],
              command |-> IF ValueNamed(runmru_key.values, runmru_key.MRUList[i]).t = "absent"
                          THEN <<"Not Found">>
                          ELSE clean_command(ValueNamed(runmru_key.values,
                                                        runmru_key.MRUList[i]).chars)]]

\* The TypedPaths section (104-113): one row for every value.
typed_paths(tp_key) == IF ~tp_key.exists THEN <<>> ELSE tp_key.values

\* What the WordWheelQuery section did: msg is "table" (rows printed),
\* "No WordWheelQuery history found.", "No WordWheelQuery key found." or "-"
\* when an exception left the section.
Wwq(msg, rows, exc) == [msg |-> msg, rows |-> rows, exc |-> exc]

\* for mru_id in mru_list: search_term_bytes = get_value(wwq_key, str(mru_id))
\* if isinstance(search_term_bytes, bytes): ... add_row (129-137); a row keeps
\* the bytes of the search term.
RECURSIVE WwqRows(_, _, _)
WwqRows(wwq_key, mru_list_val, off) ==
    IF off + 4 > Len(mru_list_val) THEN <<>>
    ELSE IF ValueNamed(wwq_key.values, LE32(mru_list_val, off)).t = "binary"
         THEN <<[mru_id |-> LE32(mru_list_val, off),
                 search_term_bytes |-> ValueNamed(wwq_key.values, LE32(mru_list_val, off)).b]>>
                  \o WwqRows(wwq_key, mru_list_val, off + 4)
         ELSE WwqRows(wwq_key, mru_list_val, off + 4)

\* if mru_list_val != "N/A": mru_list = struct.unpack(f'<{len(mru_list_val)//4}I',
\* mru_list_val) ... else: "No WordWheelQuery history found." (121-141).
\* struct.unpack raises TypeError for a str and struct.error for a buffer
\* whose length is no multiple of 4.
WwqOfList(wwq_key, mru_list_val) ==
    IF IsNA(mru_list_val) THEN Wwq("No WordWheelQuery history found.", <<>>, "none")
    ELSE IF mru_list_val.t # "binary" THEN Wwq("-", <<>>, "TypeError")
    ELSE IF Len(mru_list_val.b) % 4 # 0 THEN Wwq("-", <<>>, "struct.error")
    ELSE Wwq("table", WwqRows(wwq_key, mru_list_val.b, 0), "none")

\* The WordWheelQuery section (116-142).
word_wheel_query(wwq_key) ==
    IF ~wwq_key.exists THEN Wwq("No WordWheelQuery key found.", <<>>, "none")
    ELSE WwqOfList(wwq_key, get_value(wwq_key.MRUListEx, NotFound))

\* What run() did for one profile: skipped (NTUSER.DAT missing, 37-38), or
\* the sections in their order until an exception left the try block (40-143).
UserReport(skipped, ua, run, tp, wwq, exc) ==
    [skipped |-> skipped, user_assist |-> ua, run_mru |-> run, typed_paths |-> tp,
     word_wheel_query |-> wwq, exc |-> exc]

UserSections(ntuser, ua, wwq) ==
    IF ua.exc # "none"
    THEN UserReport(FALSE, ua.printed, <<>>, <<>>, Wwq("-", <<>>, "none"), ua.exc)
    ELSE UserReport(FALSE, ua.printed, run_mru(ntuser.RunMRU), typed_paths(ntuser.TypedPaths),
                    wwq, wwq.exc)

user_report(ntuser) ==
    IF ~ntuser.exists
    THEN UserReport(TRUE, <<>>, <<>>, <<>>, Wwq("-", <<>>, "none"), "none")
    ELSE UserSections(ntuser, user_assist(ntuser.UserAssist),
                      word_wheel_query(ntuser.WordWheelQuery))

\* for profile in user_profiles (33-145): the i-th profile's NTUSER.DAT is
\* ntusers[i]. except Exception as e: print_error(..., console) (144-145): the
\* exception print_error raises leaves run().
RECURSIVE UsersLoop(_, _, _)
UsersLoop(user_profiles, ntusers, i) ==
    IF i > Len(user_profiles) THEN [ret |-> "True", users |-> <<>>]
    ELSE IF user_report(ntusers[i]).exc # "none" /\ print_error(2) # "none"
    THEN [ret |-> "Raise", users |-> <<user_report(ntusers[i])>>]
    ELSE [ret |-> UsersLoop(user_profiles, ntusers, i + 1).ret,
          users |-> <<user_report(ntusers[i])>> \o UsersLoop(user_profiles, ntusers, i + 1).users]

\* user_activity_parser.run (20-147): ret is "Raise" when an exception left
\* run() and "True" when it returned; users holds what was done for every
\* profile reached.
user_activity_run(found, ntusers) ==
    IF found.exc # "none" THEN [ret |-> "Raise", users |-> <<>>]
    ELSE IF found.user_profiles = <<>> THEN [ret |-> "True", users |-> <<>>]
    ELSE UsersLoop(found.user_profiles, ntusers, 1)

UserActivityRun ==
    /\ pc = "user_activity"
    /\ output' = user_activity_run(get_user_profiles(input), input.ntusers)
    /\ pc' = "user_activity_done"
    /\ UNCHANGED <<img, input, driverVars, runVars, loopVars, storageVars, networkVars>>

\* A 72-byte UserAssist blob: the run count at offset 4, the FILETIME at 60.
UaBlob(run_count, filetime) ==
    <<0, 0, 0, 0>> \o run_count \o [i \in 1..52 |-> 0] \o filetime \o <<0, 0, 0, 0>>

\* A REG_SZ value as the sequence of its characters.
SzChars(chars) == [t |-> "sz", chars |-> chars]

Name_Hfre == <<"H", "f", "r", "e">>
Name_pzq == <<"p", "z", "q">>

CountKey(exists, values) == [Count |-> [exists |-> exists, values |-> values]]

NoKey == [exists |-> FALSE]

UserAssistKey(guid_keys) == [exists |-> TRUE, subkeys |-> guid_keys]

RunMRUKey(mru_list, values) == [exists |-> TRUE, MRUList |-> mru_list, values |-> values]

WwqKey(mru_list_ex, values) == [exists |-> TRUE, MRUListEx |-> mru_list_ex, values |-> values]

Ntuser(ua, run, tp, wwq) ==
    [exists |-> TRUE, UserAssist |-> ua, RunMRU |-> run, TypedPaths |-> tp, WordWheelQuery |-> wwq]

RunMRU_ab ==
    RunMRUKey(<<"b", "a", "c">>, <<Value("a", SzChars(<<"cmd", "\\", "1">>)),
                                   Value("b", SzChars(<<"notepad">>))>>)

TypedPaths_1 == [exists |-> TRUE, values |-> <<Value("url1", <<"C", ":", "\\", "Temp">>)>>]

Wwq_two ==
    WwqKey(Binary(<<1, 0, 0, 0, 0, 0, 0, 0, 255, 255, 255, 255>>),
           <<Value(<<0, 0>>, Binary(<<97, 0, 0, 0>>)), Value(<<0, 1>>, Binary(<<98, 0, 0, 0>>))>>)

UserAssist_plain ==
    UserAssistKey(<<CountKey(FALSE, <<>>),
                    CountKey(TRUE, <<Value(Name_Hfre, Binary(UaBlob(<<3, 0, 0, 0>>, FT_2023))),
                                     Value(Name_pzq, Binary(UaBlob(<<0, 0, 0, 0>>, FT_2023)))>>)>>)

\* The NTUSER.DAT hives the model draws.
NtuserCandidates ==
    {[exists |-> FALSE],
     Ntuser(NoKey, NoKey, NoKey, NoKey),
     Ntuser(UserAssist_plain, RunMRU_ab, TypedPaths_1, Wwq_two),
     \* the WordWheelQuery key without MRUListEx, with the text "N/A" in it,
     \* and with a list of 5 bytes
     Ntuser(UserAssist_plain, RunMRU_ab, TypedPaths_1, WwqKey(Absent, <<>>)),
     Ntuser(NoKey, NoKey, TypedPaths_1, WwqKey(Sz("N/A"), <<>>)),
     Ntuser(NoKey, RunMRU_ab, NoKey, WwqKey(Binary(<<0, 0, 0, 0, 255>>), <<>>)),
     \* Count values that give no row before and after one that does
     Ntuser(UserAssistKey(<<CountKey(TRUE,
                <<Value(Name_pzq, Binary([i \in 1..71 |-> 1])),
                  Value(Name_pzq, Binary(UaBlob(<<0, 0, 0, 0>>, FT_Zero))),
                  Value(Name_Hfre, Binary(UaBlob(<<0, 0, 1, 0>>, FT_Zero))),
                  Value(Name_pzq, Binary(UaBlob(<<1, 0, 0, 0>>, FT_Last)))>>)>>),
            NoKey, NoKey, Wwq_two),
     \* a run count of 0 beside a FILETIME past year 9999
     Ntuser(UserAssistKey(<<CountKey(TRUE,
                <<Value(Name_pzq, Binary(UaBlob(<<0, 0, 0, 0>>, FT_Over))),
                  Value(Name_Hfre, Binary(UaBlob(<<2, 0, 0, 0>>, FT_2023)))>>)>>),
            NoKey, NoKey, NoKey)}

\* The images user_activity_parser.run is given: the profiles of the SIDs and,
\* in their order, the NTUSER.DAT of every profile.
ActivitySidKeys ==
    {q \in Subkeys(SidKeyCandidates, MaxSids) :
        \A i \in 1..Len(q) : q[i].name \in {"S-1-5-21-1001", "S-1-5-21-1002", "S-1-5-18"}}

ActivityInputs ==
    {[image_root |-> Root_mnt_img, software_exists |-> state[1],
      profile_list_opens |-> state[2], sid_keys |-> sid_keys, ntusers |-> ntusers] :
        state \in {<<FALSE, FALSE>>, <<TRUE, FALSE>>, <<TRUE, TRUE>>},
        sid_keys \in ActivitySidKeys,
        ntusers \in [1..MaxSids -> NtuserCandidates]}

(***************************************************************************)
(* parse_shell_item_path (utils.py 103-123), one loop iteration per step.  *)
(* Text is a sequence of code points.                                      *)
(***************************************************************************)
\* x.split(sep)[0]: what stands before the first occurrence of sep.
RECURSIVE BeforeSep(_, _)
BeforeSep(x, sep) ==
    IF Len(x) < Len(sep) THEN x
    ELSE IF SubSeq(x, 1, Len(sep)) = sep THEN <<>>
    ELSE <<Head(x)>> \o BeforeSep(Tail(x), sep)

\* bytes.decode('utf-16-le', 'ignore'): a surrogate without its partner and
\* a byte left over at the end are dropped.
RECURSIVE Utf16Ignore(_)
Utf16Ignore(b) ==
    IF Len(b) < 2 THEN <<>>
    ELSE IF IsHighSurrogate(LE16(b, 0)) /\ Len(b) >= 4 /\ IsLowSurrogate(LE16(b, 2))
    THEN <<65536 + (LE16(b, 0) - 55296) * 1024 + (LE16(b, 2) - 56320)>>
             \o Utf16Ignore(SubSeq(b, 5, Len(b)))
    ELSE IF IsHighSurrogate(LE16(b, 0)) \/ IsLowSurrogate(LE16(b, 0))
    THEN Utf16Ignore(SubSeq(b, 3, Len(b)))
    ELSE <<LE16(b, 0)>> \o Utf16Ignore(SubSeq(b, 3, Len(b)))

\* bytes.decode('ascii', 'ignore')
AsciiIgnore(b) == SelectSeq(b, LAMBDA c : c < 128)

\* path_segment of an item by its type byte item_data[2] (114-119); <<>>
\* stands for None as for the empty string, which line 120 treats alike.
path_segment(item_data) ==
    IF item_data[3] \in {49, 50, 177}
    THEN BeforeSep(Utf16Ignore(BeforeSep(item_data, <<0, 0>>)), <<0>>)
    ELSE IF item_data[3] = 47
    THEN AsciiIgnore(BeforeSep(SubSeq(item_data, 4, Len(item_data)), <<0>>))
    ELSE <<>>

\* '\\'.join(path_parts)
RECURSIVE JoinBackslash(_)
JoinBackslash(path_parts) ==
    IF path_parts = <<>> THEN <<>>
    ELSE IF Len(path_parts) = 1 THEN path_parts[1]
    ELSE path_parts[1] \o <<92>> \o JoinBackslash(Tail(path_parts))

\* The state of the loop: ret is "-" while the loop runs, then "text" (chars
\* is the string returned at line 122), "[Invalid Data]" or "[Parsing Error]".
ShellLoop(offset, path_parts, iterations, ret, chars) ==
    [offset |-> offset, path_parts |-> path_parts, iterations |-> iterations,
     ret |-> ret, chars |-> chars]

\* The loop body without `offset += item_size` (121).
ShellItemOffsetKept(st, item_size, item_data) ==
    IF Len(item_data) < 3
    THEN ShellLoop(st.offset, st.path_parts, st.iterations + 1, "[Parsing Error]", <<>>)
    ELSE ShellLoop(st.offset, st.path_parts, st.iterations + 1, "-", <<>>)

\* item_type = item_data[2] raises IndexError for an item of fewer than 3
\* bytes (114); otherwise the segment is appended if it is not empty and
\* offset += item_size (120-121).
ShellItem(st, item_size, item_data) ==
    IF Len(item_data) < 3
    THEN ShellLoop(st.offset, st.path_parts, st.iterations + 1, "[Parsing Error]", <<>>)
    ELSE ShellLoop(st.offset + item_size,
                   IF path_segment(item_data) # <<>>
                   THEN Append(st.path_parts, path_segment(item_data)) ELSE st.path_parts,
                   st.iterations + 1, "-", <<>>)

\* One pass of `while offset < len(data)` (110-123): struct.unpack_from
\* raises struct.error when fewer than 2 bytes are left; item_data is the
\* slice data[offset : offset + item_size], cut at the end of the buffer.
ShellIteration(data, st) ==
    IF ~(st.offset < Len(data))
    THEN ShellLoop(st.offset, st.path_parts, st.iterations, "text", JoinBackslash(st.path_parts))
    ELSE IF Len(data) - st.offset < 2
    THEN ShellLoop(st.offset, st.path_parts, st.iterations + 1, "[Parsing Error]", <<>>)
    ELSE IF LE16(data, st.offset) = 0
    THEN ShellLoop(st.offset, st.path_parts, st.iterations + 1, "text",
                   JoinBackslash(st.path_parts))
    ELSE ShellItem(st, LE16(data, st.offset),
                   Slice(data, st.offset + 1, st.offset + LE16(data, st.offset)))

\* if not isinstance(data, bytes) or len(data) < 4: return "[Invalid Data]";
\* path_parts = []; offset = 0 (107-109)
ParseShellItemPath ==
    /\ pc = "parse_shell_item_path"
    /\ output' = IF input.t # "binary" \/ Len(input.b) < 4
                 THEN ShellLoop(0, <<>>, 0, "[Invalid Data]", <<>>)
                 ELSE ShellLoop(0, <<>>, 0, "-", <<>>)
    /\ pc' = "shell_item_loop"
    /\ UNCHANGED <<img, input, driverVars, runVars, loopVars, storageVars, networkVars>>

ShellItemLoop ==
    /\ pc = "shell_item_loop"
    /\ output.ret = "-"
    /\ output' = ShellIteration(input.b, output)
    /\ UNCHANGED <<pc, img, input, driverVars, runVars, loopVars, storageVars, networkVars>>

MaxChunks == 2      \* pieces a drawn buffer is put together from

\* The pieces: a drive item, a folder item with a lone surrogate, an item of
\* another type, the terminator, an item declaring 2 bytes, an item that
\* declares 16 bytes and has 5, and a single byte.
ChunkCandidates ==
    {<<7, 0, 47, 67, 58, 92, 0>>,
     <<8, 0, 50, 65, 0, 216, 66, 0>>,
     <<4, 0, 31, 80>>,
     <<0, 0>>,
     <<2, 0, 47>>,
     <<16, 0, 47, 68, 58>>,
     <<5>>}

RECURSIVE Concat(_)
Concat(chunks) == IF chunks = <<>> THEN <<>> ELSE Head(chunks) \o Concat(Tail(chunks))

ShellInputs ==
    {Binary(Concat(chunks)) : chunks \in SeqsUpTo(ChunkCandidates, MaxChunks)}
        \cup {Sz("N/A"), Dword(0)}

InitShellItem ==
    /\ pc = "parse_shell_item_path"
    /\ input \in ShellInputs
    /\ output = <<>>
    /\ img = <<>>
    /\ NoDriver /\ NoRun /\ NoLoop /\ NoStorage /\ NoNetwork

NextShellItem == ParseShellItemPath \/ ShellItemLoop

\* The loop is sequential code: a pass that can run does run.
SpecShellItem == InitShellItem /\ [][NextShellItem]_vars /\ WF_vars(NextShellItem)

(***************************************************************************)
(* rdp_parser.run, part 1: the user profiles it finds by itself            *)
(* (rdp_parser.py 21-53; env_vars_parser.py 55-64 has the same lines), on  *)
(* a POSIX host as get_user_profiles above.                                *)
(***************************************************************************)
\* os.path.expandvars of posixpath replaces $NAME and ${NAME} only: a
\* "%SystemRoot%" piece, and every path without '$', is left as it is.
expandvars(path) == path

\* os.path.splitdrive of posixpath: the drive is always empty.
splitdrive(path) == [drive |-> <<>>, path_no_drive |-> path]

\* final_profile_path = os.path.join(image_root, path_no_drive.strip(os.sep))
\* username = os.path.basename(final_profile_path)
\* ntuser_path = os.path.join(final_profile_path, "NTUSER.DAT") (39-42)
RdpProfile(sid, final) ==
    [username |-> basename(final), sid |-> sid, profile_path |-> final,
     ntuser_path |-> path_join(final, <<"NTUSER.DAT">>)]

rdp_user_profile(image_root, sid, profile_path_raw) ==
    RdpProfile(sid, path_join(image_root,
                              StripSlash(splitdrive(expandvars(profile_path_raw)).path_no_drive)))

\* for sid_key in profile_list_key.subkeys() (33-42): what the loop computes
\* for every SID key with a ProfileImagePath.
RECURSIVE RdpCandidates(_, _)
RdpCandidates(image_root, sid_keys) ==
    IF sid_keys = <<>> THEN <<>>
    ELSE IF ~Head(sid_keys).ProfileImagePath.present \/ Head(sid_keys).ProfileImagePath.s = <<>>
    THEN RdpCandidates(image_root, Tail(sid_keys))
    ELSE <<rdp_user_profile(image_root, Head(sid_keys).name, Head(sid_keys).ProfileImagePath.s)>>
             \o RdpCandidates(image_root, Tail(sid_keys))

\* The image holds the NTUSER.DAT of every profile in the directory its
\* ProfileImagePath names below image_root.
NtuserFiles(im) ==
    {path_join(final_profile_path(im.image_root, im.sid_keys[i].ProfileImagePath.s),
               <<"NTUSER.DAT">>) :
        i \in {j \in 1..Len(im.sid_keys) : im.sid_keys[j].ProfileImagePath.present
                                              /\ im.sid_keys[j].ProfileImagePath.s # <<>>}}

\* if os.path.exists(ntuser_path): user_profiles.append(...) (44-45);
\* if not user_profiles: ... return True (52-54); ret is "-" when run() goes
\* on to the loop over the profiles.
RdpFound(candidates, files) ==
    [ret |-> IF SelectSeq(candidates, LAMBDA p : p.ntuser_path \in files) = <<>>
             THEN "True" ELSE "-",
     candidates |-> candidates,
     user_profiles |-> SelectSeq(candidates, LAMBDA p : p.ntuser_path \in files)]

rdp_user_profiles(im) ==
    IF ~im.software_exists \/ ~im.profile_list_opens
    THEN [ret |-> IF print_error(1) = "none" THEN "False" ELSE "Raise",
          candidates |-> <<>>, user_profiles |-> <<>>]
    ELSE RdpFound(RdpCandidates(im.image_root, im.sid_keys), NtuserFiles(im))

RdpUserProfiles ==
    /\ pc = "rdp_profiles"
    /\ output' = rdp_user_profiles(input)
    /\ pc' = "rdp_profiles_done"
    /\ UNCHANGED <<img, input, driverVars, runVars, loopVars, storageVars, networkVars>>

(***************************************************************************)
(* os_info_parser.run: the time zone (os_info_parser.py 87-103).  A 32-bit *)
(* value is the pair <<high 16 bits, low 16 bits>>.                        *)
(***************************************************************************)
Dword32(hi, lo) == [t |-> "dword", n |-> <<hi, lo>>, s |-> "", b |-> <<>>]

\* REG_QWORD data of 2^32 or more, which struct.pack('<I', ...) rejects.
QwordAbove32 == [t |-> "qword", n |-> <<0, 0>>, s |-> "", b |-> <<>>]

\* 2^32 - n for n in 1 .. 2^32 - 1
Neg32(n) ==
    IF n[2] = 0 THEN <<65536 - n[1], 0>> ELSE <<65535 - n[1], 65536 - n[2]>>

\* A bias that is taken as it was read, without the signed reading.
SignedBiasAsRead(unsigned_bias) == [neg |-> FALSE, mag |-> unsigned_bias]

\* struct.unpack('<i', struct.pack('<I', unsigned_bias))[0] (92-93), as sign
\* and magnitude.
signed_bias(unsigned_bias) ==
    IF unsigned_bias[1] < 32768 THEN [neg |-> FALSE, mag |-> unsigned_bias]
    ELSE [neg |-> TRUE, mag |-> Neg32(unsigned_bias)]

\* divmod(abs(offset_minutes), 60) (98)
DivMod60(mag) ==
    [hours |-> (mag[1] \div 60) * 65536 + ((mag[1] % 60) * 65536 + mag[2]) \div 60,
     rem_minutes |-> ((mag[1] % 60) * 65536 + mag[2]) % 60]

\* f"{n:02d}"
Fmt02d(n) == DecimalChars(ZeroPad(Digits(n), 2))

\* offset_minutes = -signed_bias; sign = '+' if offset_minutes >= 0 else '-'
\* offset_str = f"UTC{sign}{hours:02d}:{rem_minutes:02d}" (97-100)
offset_str(signed, hm) ==
    <<"U", "T", "C">>
        \o <<IF signed.neg \/ signed.mag = <<0, 0>> THEN "+" ELSE "-">>
        \o Fmt02d(hm.hours) \o <<":">> \o Fmt02d(hm.rem_minutes)

TimeZone(tz_name, signed, has_offset) ==
    [tz_name |-> tz_name, has_offset |-> has_offset, signed_bias |-> signed,
     hours |-> DivMod60(signed.mag).hours,
     rem_minutes |-> DivMod60(signed.mag).rem_minutes,
     offset_str |-> IF has_offset THEN offset_str(signed, DivMod60(signed.mag)) ELSE <<>>]

\* if unsigned_bias is not None and isinstance(unsigned_bias, int): ...
\* except struct.error: signed_bias = 0 ... else: os_info["Time Zone"] = tz_name
time_zone(tz_name, unsigned_bias) ==
    IF unsigned_bias.t = "dword" THEN TimeZone(tz_name, signed_bias(unsigned_bias.n), TRUE)
    ELSE IF unsigned_bias.t = "qword"
    THEN TimeZone(tz_name, [neg |-> FALSE, mag |-> <<0, 0>>], TRUE)
    ELSE TimeZone(tz_name, [neg |-> FALSE, mag |-> <<0, 0>>], FALSE)

\* tz_name = get_value(tz_key, "TimeZoneKeyName")
\* unsigned_bias = get_value(tz_key, "Bias", None) (87-88)
TimeZoneInformation ==
    /\ pc = "time_zone"
    /\ output' = time_zone(get_value(input.TimeZoneKeyName, NotFound), input.Bias)
    /\ pc' = "time_zone_done"
    /\ UNCHANGED <<img, input, driverVars, runVars, loopVars, storageVars, networkVars>>

\* The TimeZoneInformation keys the model draws.
BiasHigh == {0, 1, 32767, 32768, 65535}
BiasLow == {0, 59, 60, 300, 6000, 65476, 65535}

TimeZoneInputs ==
    {[TimeZoneKeyName |-> name, Bias |-> bias] :
        name \in {Absent, Sz("Eastern Standard Time")},
        bias \in {Dword32(hi, lo) : hi \in BiasHigh, lo \in BiasLow}
                     \cup {Absent, Sz("300"), QwordAbove32}}

(***************************************************************************)
(* network_info_parser.run: the loop over the adapters of the network      *)
(* class key (network_info_parser.py 50-93).  An adapter of the model      *)
(* carries the Tcpip and Tcpip6 Interfaces keys of its GUID.  Of ipv4_info *)
(* and ipv6_info the model keeps what the classification reads.            *)
(***************************************************************************)
\* The default=[] of lines 64 and 76.
EmptyList == MultiSz(<<>>)

\* dhcp = get_value(iface4_key, "EnableDHCP") == 1
\* "ip": clean_multi_sz(get_value(iface4_key, "DhcpIPAddress" if dhcp else
\* "IPAddress", default=[])) (62-64); found is FALSE for the {} that is left
\* when the key does not exist (71).
Ipv4Info(iface4_key, dhcp) ==
    [found |-> TRUE, dhcp |-> dhcp,
     ip |-> clean_multi_sz(get_value(IF dhcp THEN iface4_key.DhcpIPAddress
                                             ELSE iface4_key.IPAddress, EmptyList))]

ipv4_info(iface4_key) ==
    IF ~iface4_key.exists THEN [found |-> FALSE, dhcp |-> FALSE, ip |-> <<>>]
    ELSE Ipv4Info(iface4_key, get_value(iface4_key.EnableDHCP, NotFound) = Dword(1))

\* str(ipaddress.IPv6Address(chunk)) for every whole 16-byte chunk of
\* binary_ips (79-84)
RECURSIVE BinaryIps(_)
BinaryIps(binary_ips) ==
    IF Len(binary_ips) < 16 THEN {}
    ELSE {[t |-> "ipv6", n |-> 0, s |-> "", b |-> SubSeq(binary_ips, 1, 16)]}
             \cup BinaryIps(SubSeq(binary_ips, 17, Len(binary_ips)))

\* ipv6_info['ip'] = list(set(all_ipv6_addrs)) (75-85): the strings of
\* clean_multi_sz and the addresses of the binary value, as a set.
Ipv6Ips(str_ips, binary_ips) ==
    {str_ips[i] : i \in 1..Len(str_ips)}
        \cup IF binary_ips.t = "binary" THEN BinaryIps(binary_ips.b) ELSE {}

ipv6_info(iface6_key) ==
    IF ~iface6_key.exists THEN [found |-> FALSE, ip |-> {}]
    ELSE [found |-> TRUE,
          ip |-> Ipv6Ips(clean_multi_sz(get_value(iface6_key.IPAddress, EmptyList)),
                         get_value(iface6_key.IPAddress, Binary(<<>>)))]

\* The two lists of lines 50-51.
Interfaces(active, inactive) == [active_interfaces |-> active, inactive_interfaces |-> inactive]

\* if ipv4_info.get('ip') or ipv6_info.get('ip'): active_interfaces.append(...)
\* else: if description != "Unknown Interface" and guid != "Not Found":
\*     inactive_interfaces.append(...) (89-93)
classify(lists, description, guid, ipv4, ipv6) ==
    IF ipv4.ip # <<>> \/ ipv6.ip # {}
    THEN Interfaces(Append(lists.active_interfaces,
                           [desc |-> description, guid |-> guid, ipv4 |-> ipv4, ipv6 |-> ipv6]),
                    lists.inactive_interfaces)
    ELSE IF description # Sz("Unknown Interface") /\ guid # NotFound
    THEN Interfaces(lists.active_interfaces,
                    Append(lists.inactive_interfaces, [desc |-> description, guid |-> guid]))
    ELSE lists

\* The body of `for subkey in class_key.subkeys()` (54-93); the Interfaces
\* keys are opened under the name that guid holds, so there are none for an
\* adapter without NetCfgInstanceId.
ClassSubkey(lists, subkey, guid) ==
    IF IsNA(guid) THEN lists
    ELSE classify(lists, get_value(subkey.DriverDesc, Sz("Unknown Interface")), guid,
                  ipv4_info(subkey.iface4_key), ipv6_info(subkey.iface6_key))

RECURSIVE ClassSubkeys(_, _)
ClassSubkeys(lists, subkeys) ==
    IF subkeys = <<>> THEN lists
    ELSE ClassSubkeys(ClassSubkey(lists, Head(subkeys),
                                  get_value(Head(subkeys).NetCfgInstanceId, NotFound)),
                      Tail(subkeys))

ClassifyInterfaces ==
    /\ pc = "interfaces"
    /\ output' = ClassSubkeys(Interfaces(<<>>, <<>>), input.subkeys)
    /\ pc' = "interfaces_done"
    /\ UNCHANGED <<img, input, driverVars, runVars, loopVars, storageVars, networkVars>>

MaxAdapters == 2    \* subkeys of the network class key

Iface4Key(EnableDHCP, DhcpIPAddress, IPAddress) ==
    [exists |-> TRUE, EnableDHCP |-> EnableDHCP, DhcpIPAddress |-> DhcpIPAddress,
     IPAddress |-> IPAddress]

Iface6Key(IPAddress) == [exists |-> TRUE, IPAddress |-> IPAddress]

Adapter(name, NetCfgInstanceId, DriverDesc, iface4_key, iface6_key) ==
    [name |-> name, NetCfgInstanceId |-> NetCfgInstanceId, DriverDesc |-> DriverDesc,
     iface4_key |-> iface4_key, iface6_key |-> iface6_key]

\* The subkeys of the class key the model draws: an adapter with a DHCP
\* address, one with an empty static address list, one without DriverDesc
\* and without addresses, the Properties key, and an adapter with a binary
\* IPv6 address only.
AdapterCandidates ==
    {Adapter("0000", Sz("{A}"), Sz("Intel(R) Ethernet"),
             Iface4Key(Dword(1), Sz("192.168.1.5"), Absent), NoKey),
     Adapter("0001", Sz("{B}"), Sz("Realtek PCIe GbE"),
             Iface4Key(Dword(0), Sz("10.0.0.9"), MultiSz(<<"">>)), Iface6Key(Absent)),
     Adapter("0002", Sz("{C}"), Absent, NoKey, NoKey),
     Adapter("Properties", Absent, Absent, NoKey, NoKey),
     Adapter("0003", Sz("{D}"), Sz("Teredo Tunneling"), NoKey,
             Iface6Key(Binary(<<32, 1, 13, 184, 0, 0, 0, 0, 0, 0, 0, 0, 0, 0, 0, 1, 255>>)))}

InterfacesInputs == {[subkeys |-> q] : q \in Subkeys(AdapterCandidates, MaxAdapters)}

UtilInputs == [systemtime |-> SystemtimeInputs, rot_13 |-> NameInputs, mac |-> MacInputs,
     multi_sz |-> MultiSzInputs, get_user_profiles |-> ProfileInputs,
     user_activity |-> ActivityInputs, rdp_profiles |-> ProfileInputs,
     time_zone |-> TimeZoneInputs, interfaces |-> InterfacesInputs]

InitUtil ==
    /\ \E f \in DOMAIN UtilInputs : pc = f /\ input \in UtilInputs[f]
    /\ output = <<>>
    /\ img = <<>>
    /\ NoDriver /\ NoRun /\ NoLoop /\ NoStorage /\ NoNetwork

NextUtil == ParseSystemtime \/ DecodeName \/ FormatMac \/ CleanMultiSz
                \/ GetUserProfiles \/ UserActivityRun \/ RdpUserProfiles
                \/ TimeZoneInformation \/ ClassifyInterfaces

SpecUtil == InitUtil /\ [][NextUtil]_vars

(***************************************************************************)
(* Claims about the formatters.                                            *)
(***************************************************************************)
\* The fields of a 16-byte input.
StYear == LE16(input.b, 0)
StMonth == LE16(input.b, 2)
StDay == LE16(input.b, 6)
StHour == LE16(input.b, 8)
StMinute == LE16(input.b, 10)
StSecond == LE16(input.b, 12)

\* The six fields name an instant of the calendar.
ValidDate ==
    /\ StYear \in 1..9999 /\ StMonth \in 1..12 /\ StDay \in 1..DaysInMonth(StYear, StMonth)
    /\ StHour \in 0..23 /\ StMinute \in 0..59 /\ StSecond \in 0..59

\* n in exactly `width` decimal characters.
Decimal(n, width) ==
    [i \in 1..width |-> HexChars[((n \div (10 ^ (width - i))) % 10) + 1]]

\* C13: parse_systemtime_from_binary gives "N/A" for an input whose year field
\* is 0 and for a malformed input (shorter than 16 bytes, or not bytes), and
\* gives "YYYY-MM-DD HH:MM:SS" for 16 bytes holding a valid date, whatever the
\* dayOfWeek and milliseconds fields are.
C13_SystemtimeToTextOrNA ==
    pc = "systemtime_done" =>
        /\ (input.t # "binary" \/ Len(input.b) < 16) => output = CharsNA
        /\ (input.t = "binary" /\ Len(input.b) = 16 /\ StYear = 0) => output = CharsNA
        /\ (input.t = "binary" /\ Len(input.b) = 16 /\ ValidDate) =>
               output = Decimal(StYear, 4) \o <<"-">> \o Decimal(StMonth, 2) \o <<"-">>
                            \o Decimal(StDay, 2) \o <<" ">> \o Decimal(StHour, 2) \o <<":">>
                            \o Decimal(StMinute, 2) \o <<":">> \o Decimal(StSecond, 2)

\* The character `to` is the character `from` moved 13 places on within the
\* alphabet, wrapping round.
Shifted13(from, to, alphabet) ==
    /\ LetterIndex(to, alphabet) # 0
    /\ (LetterIndex(to, alphabet) - LetterIndex(from, alphabet)) % 26 = 13

\* Every ASCII letter is shifted by 13 within its own case, every other
\* character is unchanged, and decoding the result gives the name again.
ShiftsLettersAndIsSelfInverse ==
    /\ Len(output) = Len(input)
    /\ \A i \in 1..Len(input) :
           IF LetterIndex(input[i], Uppercase) # 0
           THEN Shifted13(input[i], output[i], Uppercase)
           ELSE IF LetterIndex(input[i], Lowercase) # 0
           THEN Shifted13(input[i], output[i], Lowercase)
           ELSE output[i] = input[i]
    /\ rot_13(output) = input

\* C14: the de-obfuscation of UserAssist value names shifts each
\* ASCII letter by 13 places within its own case and leaves every other
\* character unchanged; it is self-inverse; it maps "Hfre" to "User" and
\* "Urer" to "Here".
C14_Rot13SelfInverse ==
    pc = "rot_13_done" =>
        /\ ShiftsLettersAndIsSelfInverse
        /\ input = <<"H", "f", "r", "e">> => output = <<"U", "s", "e", "r">>
        /\ input = <<"U", "r", "e", "r">> => output = <<"H", "e", "r", "e">>

\* C14 witness: the name "Hfre" decoded to "User".
C14_Witness ==
    /\ pc = "rot_13_done"
    /\ input = <<"H", "f", "r", "e">>
    /\ output = <<"U", "s", "e", "r">>

\* C14 with the example of the specification: the same shift and self-inverse
\* property, and "Urer" mapped to "User".
C14_UrerGivesUser ==
    pc = "rot_13_done" =>
        /\ ShiftsLettersAndIsSelfInverse
        /\ input = <<"U", "r", "e", "r">> => output = <<"U", "s", "e", "r">>

\* C15: format_mac_address gives the colon-separated uppercase two-digit hex
\* octets for an input of exactly 6 bytes (00 1A 2B 3C 4D 5E gives
\* "00:1A:2B:3C:4D:5E"), and "N/A" for bytes of any other length, shorter or
\* longer, and for an input that is not bytes.
C15_MacOfExactlySixBytes ==
    pc = "mac_done" =>
        /\ (input.t = "binary" /\ Len(input.b) = 6) =>
               /\ Len(output) = 17
               /\ \A i \in 1..6 :
                      /\ output[3 * i - 2] = HexChars[(input.b[i] \div 16) + 1]
                      /\ output[3 * i - 1] = HexChars[(input.b[i] % 16) + 1]
               /\ \A i \in 1..5 : output[3 * i] = ":"
        /\ input = Binary(Mac_001A) =>
               output = <<"0", "0", ":", "1", "A", ":", "2", "B", ":", "3", "C", ":",
                          "4", "D", ":", "5", "E">>
        /\ (input.t # "binary" \/ Len(input.b) # 6) => output = CharsNA

\* C16: clean_multi_sz returns a list without an empty entry: for a list its
\* non-empty entries in their order (["a", "", "b"] gives ["a", "b"]), for the
\* empty string [], and for every other scalar the one-element list holding it
\* ("x" gives ["x"]).
C16_ListWithoutEmptyEntries ==
    pc = "multi_sz_done" =>
        /\ \A i \in 1..Len(output) : output[i] # Sz("")
        /\ input.t = "multi_sz" =>
               /\ \A i \in 1..Len(output) : output[i].t = "sz"
               /\ [i \in 1..Len(output) |-> output[i].s]
                      = SelectSeq(input.b, LAMBDA item : item # "")
        /\ input = MultiSz(<<"a", "", "b">>) => output = <<Sz("a"), Sz("b")>>
        /\ input = Sz("") => output = <<>>
        /\ (input.t # "multi_sz" /\ input # Sz("")) => output = <<input>>

(***************************************************************************)
(* Claims about get_user_profiles.                                         *)
(***************************************************************************)
\* The steps of the normalization, in order: backslashes to forward slashes,
\* the %SystemRoot% token to 'Windows', one leading drive prefix removed,
\* leading separators stripped.
ForwardSlashes(raw) == [i \in 1..Len(raw) |-> IF raw[i] = "\\" THEN "/" ELSE raw[i]]
SystemRootExpanded(path) ==
    [i \in 1..Len(path) |-> IF path[i] \in {"%SystemRoot%", "%systemroot%"} THEN "Windows"
                            ELSE path[i]]
IsAsciiLetter(piece) ==
    \E i \in 1..26 : piece = Uppercase[i] \/ piece = Lowercase[i]
DrivePrefixRemoved(path) ==
    IF Len(path) >= 3 /\ IsAsciiLetter(path[1]) /\ path[2] = ":" /\ path[3] = "/"
    THEN [i \in 1..(Len(path) - 3) |-> path[i + 3]]
    ELSE path
Remainder(raw) == LStripSlash(DrivePrefixRemoved(SystemRootExpanded(ForwardSlashes(raw))))

\* The remainder re-rooted under image_root, in the host's conventions.
ReRooted(image_root, raw) == normpath(image_root \o <<"/">> \o Remainder(raw))

\* The final component of a path.
FinalComponent(path) ==
    IF \E i \in 1..Len(path) : path[i] = "/"
    THEN SubSeq(path, (CHOOSE i \in 1..Len(path) :
                           path[i] = "/" /\ \A j \in (i + 1)..Len(path) : path[j] # "/") + 1,
                Len(path))
    ELSE path

\* The SID keys of the input that have a non-empty ProfileImagePath.
WithPath == SelectSeq(input.sid_keys,
                      LAMBDA k : k.ProfileImagePath.present /\ k.ProfileImagePath.s # <<>>)

\* C17: get_user_profiles normalizes every raw ProfileImagePath in this
\* order: backslashes become forward slashes, %SystemRoot% becomes 'Windows',
\* one leading drive prefix (one ASCII letter of either case, then ':/') is
\* removed, leading separators are stripped and the remainder is re-rooted
\* under image_root; the username is the final component of the result.
\* "%SystemRoot%\Users\Alice" under /mnt/img gives /mnt/img/Windows/Users/Alice
\* and "Alice"; "C:\Users\Bob" gives /mnt/img/Users/Bob.
C17_ProfilePathNormalization ==
    (pc = "get_user_profiles_done" /\ output.exc = "none" /\ input.profile_list_opens) =>
        /\ Len(output.user_profiles) = Len(WithPath)
        /\ \A i \in 1..Len(WithPath) :
               /\ output.user_profiles[i].sid = WithPath[i].name
               /\ output.user_profiles[i].profile_path
                      = ReRooted(input.image_root, WithPath[i].ProfileImagePath.s)
               /\ output.user_profiles[i].username
                      = FinalComponent(output.user_profiles[i].profile_path)
               /\ WithPath[i].name = "S-1-5-21-1001" =>
                      /\ output.user_profiles[i].profile_path
                             = <<"/", "mnt", "/", "img", "/", "Windows", "/", "Users", "/", "Alice">>
                      /\ output.user_profiles[i].username = <<"Alice">>
               /\ WithPath[i].name = "S-1-5-21-1002" =>
                      output.user_profiles[i].profile_path
                          = <<"/", "mnt", "/", "img", "/", "Users", "/", "Bob">>

\* C17 witness: "C:\D:\Users\X" and "%SystemRoot%\Users\Alice" resolved under
\* /mnt/img: one drive prefix removed, the token expanded.
C17_Witness ==
    /\ pc = "get_user_profiles_done"
    /\ input.image_root = Root_mnt_img
    /\ Len(output.user_profiles) = 2
    /\ output.user_profiles[1].sid = "S-1-5-21-1004"
    /\ output.user_profiles[1].profile_path
           = <<"/", "mnt", "/", "img", "/", "D", ":", "/", "Users", "/", "X">>
    /\ output.user_profiles[2].sid = "S-1-5-21-1001"
    /\ output.user_profiles[2].username = <<"Alice">>

\* C18: get_user_profiles never raises: with the SOFTWARE hive missing, or a
\* ProfileList key that cannot be opened, it returns the empty list; a SID key
\* without a ProfileImagePath is passed over while the other SID keys give
\* their profiles; and user_activity_parser.run returns True when the list is
\* empty.
C18_GetUserProfilesNeverRaises ==
    /\ pc = "get_user_profiles_done" =>
           /\ output.exc = "none"
           /\ (~input.software_exists \/ ~input.profile_list_opens) =>
                  output.user_profiles = <<>>
           /\ (input.software_exists /\ input.profile_list_opens) =>
                  [i \in 1..Len(output.user_profiles) |-> output.user_profiles[i].sid]
                      = [i \in 1..Len(WithPath) |-> WithPath[i].name]
    /\ pc = "user_activity_done" =>
           /\ output.ret # "Raise"
           /\ (~input.software_exists \/ ~input.profile_list_opens \/ WithPath = <<>>) =>
                  output.ret = "True"

(***************************************************************************)
(* Claims about the control set.                                           *)
(***************************************************************************)
\* The ControlSetNNN-scoped key paths a run() opened.
OpenedSegments == {result.opened[i].cs : i \in 1..Len(result.opened)}

\* C19: whenever a parser gets past the control-set resolution with an
\* integer Current, the segment after 'ControlSet' in every system-scoped key
\* path is three decimal digits between "001" and "999": never "000", never
\* more than three digits.
C19_SegmentIsThreeDigits ==
    ( /\ module \in ControlSetModules
      /\ result # NoOutcome
      /\ img.selectKey
      /\ img.current.t = "dword" )
        => \A seg \in OpenedSegments :
               /\ Len(seg) = 3
               /\ \A i \in 1..3 : seg[i] \in 0..9
               /\ seg # <<0, 0, 0>>

\* The number of times Select\Current was read by the parsers invoked so far.
RECURSIVE CurrentReads(_)
CurrentReads(outs) ==
    IF outs = <<>> THEN 0 ELSE Head(outs).curReads + CurrentReads(Tail(outs))

\* C20: within one run of the driver over PARSERS, Select\Current of the
\* SYSTEM hive is read at most once, and every ControlSetNNN-scoped path
\* opened during the run uses the value that was read.
C20_CurrentReadOncePerRun ==
    /\ CurrentReads(outcomes) <= 1
    /\ \A i, j \in 1..Len(outcomes) :
           \A p \in 1..Len(outcomes[i].opened), q \in 1..Len(outcomes[j].opened) :
               outcomes[i].opened[p].cs = outcomes[j].opened[q].cs

(***************************************************************************)
(* Claims about values that are missing from a key that exists.            *)
(***************************************************************************)
\* The reports of the users whose WordWheelQuery key exists without an
\* MRUListEx value, among the users run() reached.
WithoutMRUListEx ==
    {i \in 1..Len(output.users) :
        /\ input.ntusers[i].exists
        /\ input.ntusers[i].WordWheelQuery.exists
        /\ input.ntusers[i].WordWheelQuery.MRUListEx = Absent}

\* C21: a value that is missing from an existing key is handled as 'no data':
\* what get_value returns for it is the marker its callers test for, and a
\* user whose WordWheelQuery key has no MRUListEx value gets 'no history
\* found', with no exception and with run() going on to return True.
C21_MissingValueIsNoData ==
    pc = "user_activity_done" =>
        \A i \in WithoutMRUListEx :
            /\ IsNA(get_value(input.ntusers[i].WordWheelQuery.MRUListEx, NotFound))
            /\ output.users[i].word_wheel_query.msg = "No WordWheelQuery history found."
            /\ output.users[i].exc = "none"
            /\ output.ret = "True"

\* A user whose WordWheelQuery key has no MRUListEx value was reached.
C21_Witness == pc = "user_activity_done" /\ WithoutMRUListEx # {}

(***************************************************************************)
(* Claims about the UserAssist section.                                    *)
(***************************************************************************)
\* The values of a Count key the claim calls visible: a blob of at least 72
\* bytes whose run count is above 0.
IsVisible(value) ==
    /\ value.data.t = "binary"
    /\ Len(value.data.b) >= 72
    /\ LE32(value.data.b, 4) # <<0, 0>>

VisibleRows(visible) ==
    [j \in 1..Len(visible) |->
        [decoded_name |-> rot_13(visible[j].name),
         run_count |-> LE32(visible[j].data.b, 4),
         last_run |-> format_filetime(LE64(visible[j].data.b, 60))]]

VisibleTables(guid_keys) ==
    SelectSeq([k \in 1..Len(guid_keys) |->
                  IF guid_keys[k].Count.exists
                  THEN VisibleRows(SelectSeq(guid_keys[k].Count.values, IsVisible))
                  ELSE <<>>],
              LAMBDA rows : rows # <<>>)

\* The users run() reached whose NTUSER.DAT has a UserAssist key.
WithUserAssist ==
    {i \in 1..Len(output.users) :
        input.ntusers[i].exists /\ input.ntusers[i].UserAssist.exists}

\* C22: for every Count key the rows shown are exactly its values with a blob
\* of at least 72 bytes and a run count above 0, each with the de-obfuscated
\* name, the run count and the FILETIME of offset 60; a value with run count
\* 0 or a shorter blob is not shown and does not stop the enumeration.
C22_UserAssistVisibleRows ==
    pc = "user_activity_done" =>
        \A i \in WithUserAssist :
            output.users[i].user_assist = VisibleTables(input.ntusers[i].UserAssist.subkeys)

\* A Count key with a value of run count 0 before a value that is shown.
C22_Witness ==
    /\ pc = "user_activity_done"
    /\ \E i \in WithUserAssist :
           \E k \in 1..Len(input.ntusers[i].UserAssist.subkeys) :
               /\ input.ntusers[i].UserAssist.subkeys[k].Count.exists
               /\ ~IsVisible(input.ntusers[i].UserAssist.subkeys[k].Count.values[1])
               /\ IsVisible(input.ntusers[i].UserAssist.subkeys[k].Count.values[2])

(***************************************************************************)
(* Claims about parse_shell_item_path.                                     *)
(***************************************************************************)
\* The walk of the claim over the chunks of a buffer from offset: "bad" when
\* a chunk declares fewer than 3 bytes, a chunk runs past the end of the
\* buffer or fewer than 2 bytes are left; otherwise the segments of the
\* chunks before the first zero-size chunk or the end of the buffer.
RECURSIVE Chunks(_, _)
Chunks(data, offset) ==
    IF offset >= Len(data) THEN [bad |-> FALSE, segments |-> <<>>]
    ELSE IF Len(data) - offset < 2 THEN [bad |-> TRUE, segments |-> <<>>]
    ELSE IF LE16(data, offset) = 0 THEN [bad |-> FALSE, segments |-> <<>>]
    ELSE IF LE16(data, offset) < 3 \/ offset + LE16(data, offset) > Len(data)
    THEN [bad |-> TRUE, segments |-> <<>>]
    ELSE [bad |-> Chunks(data, offset + LE16(data, offset)).bad,
          segments |-> <<path_segment(SubSeq(data, offset + 1, offset + LE16(data, offset)))>>
                           \o Chunks(data, offset + LE16(data, offset)).segments]

Returned3 == pc = "shell_item_loop" /\ output.ret # "-"

\* C23: for a buffer (of the 4 bytes or more the function walks) with a chunk
\* of declared size below 3, a chunk running past the end of the buffer or a
\* trailing fragment too short for a size field, parse_shell_item_path returns
\* "[Parsing Error]"; for a consistent buffer it returns the segments up to
\* the first zero-size chunk joined with a backslash.
C23_InconsistentBufferIsParsingError ==
    (Returned3 /\ input.t = "binary" /\ Len(input.b) >= 4) =>
        IF Chunks(input.b, 0).bad
        THEN output.ret = "[Parsing Error]"
        ELSE /\ output.ret = "text"
             /\ output.chars = JoinBackslash(SelectSeq(Chunks(input.b, 0).segments,
                                                       LAMBDA seg : seg # <<>>))

\* A pass of the loop that leaves it running has moved the read offset
\* forward.
OffsetIncreases ==
    (pc = "shell_item_loop" /\ output.ret = "-" /\ output'.ret = "-")
        => output'.offset > output.offset

\* C29: parse_shell_item_path terminates on every buffer: every pass of the
\* loop either ends it or moves the read offset forward, the passes are never
\* more than the bytes of the buffer, and a result is returned.
C29_ShellItemLoopTerminates ==
    /\ [][OffsetIncreases]_vars
    /\ [](pc = "shell_item_loop" => output.iterations <= Len(input.b))
    /\ <>(pc = "shell_item_loop" /\ output.ret \in {"text", "[Invalid Data]", "[Parsing Error]"})

\* The loop returned after more than one pass.
C29_Witness == Returned3 /\ output.iterations >= 2

(***************************************************************************)
(* Claims about the rows of the USB storage table.                        *)
(***************************************************************************)
\* C24: in every row, 'Last Connected' is the serial key's own timestamp (the
\* row's 'First Installed') when no index key matched or the matched one has
\* no timestamp text, and otherwise the matched index entry's last_connected,
\* unchanged.
C24_LastConnectedFallsBackToFirstInstalled ==
    pc \in {"usbstor", "storage_done"} =>
        \A k \in 1..Len(usb_table) :
            /\ usb_table[k].first_installed = format_datetime_obj(Enumerated[k].timestamp)
            /\ IF Matching(usb_table[k].serial) = {}
                  \/ usb_info_map[First(Matching(usb_table[k].serial))].val.last_connected.na
               THEN usb_table[k].last_connected = usb_table[k].first_installed
               ELSE usb_table[k].last_connected
                        = usb_info_map[First(Matching(usb_table[k].serial))].val.last_connected

\* A row without a match that shows its own timestamp beside a row that shows
\* the different timestamp of its matched index entry.
C24_Witness ==
    /\ pc = "storage_done"
    /\ \E k \in 1..Len(usb_table) :
           /\ Matching(usb_table[k].serial) = {}
           /\ ~usb_table[k].last_connected.na
           /\ usb_table[k].last_connected = usb_table[k].first_installed
    /\ \E k \in 1..Len(usb_table) :
           /\ Matching(usb_table[k].serial) # {}
           /\ usb_table[k].last_connected # usb_table[k].first_installed

\* The keys of a subtree in depth-first pre-order.
RECURSIVE PreOrder(_), PreOrderOf(_, _)
PreOrder(key) == <<key>> \o PreOrderOf(key.subkeys, 1)

PreOrderOf(subkeys, i) ==
    IF i > Len(subkeys) THEN <<>>
    ELSE PreOrder(subkeys[i]) \o PreOrderOf(subkeys, i + 1)

EndsWith0067(key) == EndsWith(key.name, Suffix_0067)

DefaultOfFirst(keys) ==
    IF keys = <<>> THEN Sz("N/A") ELSE get_value(keys[1].default, NotFound)

\* C25: 'Last Removed' of every row is the default value of the first key,
\* in depth-first pre-order over the serial key and its subtree, whose name
\* ends with "0067", and "N/A" when there is no such key; the row is there in
\* either case.
C25_FirstKeyInPreOrderWithSuffix ==
    pc \in {"usbstor", "storage_done"} =>
        /\ Len(usb_table) = Len(Enumerated)
        /\ \A k \in 1..Len(usb_table) :
               usb_table[k].last_removed
                   = format_datetime_obj(
                         DefaultOfFirst(SelectSeq(PreOrder(Enumerated[k]), EndsWith0067)))

\* C28: when a row was joined with an index entry, the text before the first
\* '&' of the matched index key equals the row's short serial, and a row with
\* an empty short serial is not joined.
C28_JoinedKeyHasTheShortSerial ==
    pc \in {"usbstor", "storage_done"} =>
        \A k \in 1..Len(usb_table) :
            Matching(usb_table[k].serial) # {} =>
                /\ usb_table[k].vid = usb_info_map[First(Matching(usb_table[k].serial))].val.vid
                /\ serial_number_short(usb_info_map[First(Matching(usb_table[k].serial))].key)
                       = usb_table[k].serial
                /\ usb_table[k].serial # <<>>

(***************************************************************************)
(* Claims about the profile paths the parsers compute by themselves.      *)
(***************************************************************************)
SameProfile(inline, resolved) ==
    /\ inline.profile_path = resolved.profile_path
    /\ inline.username = resolved.username
    /\ inline.ntuser_path = resolved.ntuser_path

\* C27: for every raw ProfileImagePath and image root, the profile path,
\* username and NTUSER.DAT path that rdp_parser.run computes are those of
\* get_user_profiles.
C27_InlineProfileAsGetUserProfiles ==
    (pc = "rdp_profiles_done" /\ input.software_exists /\ input.profile_list_opens) =>
        /\ Len(output.candidates) = Len(get_user_profiles(input).user_profiles)
        /\ \A i \in 1..Len(output.candidates) :
               SameProfile(output.candidates[i], get_user_profiles(input).user_profiles[i])

(***************************************************************************)
(* Claims about the time zone.                                             *)
(***************************************************************************)
BiasRead == pc = "time_zone_done" /\ input.Bias.t = "dword"

\* the magnitude mag is 2^32 - b
Is2Pow32Minus(mag, b) ==
    /\ (mag[2] + b[2]) % 65536 = 0
    /\ mag[1] + b[1] + (mag[2] + b[2]) \div 65536 = 65536

\* the magnitude mag is (high * 65536 + hours_low) * 60 + rem_minutes, given
\* high and low = hours_low * 60 + rem_minutes
IsTimes60Plus(mag, high, low) ==
    /\ mag[2] = low % 65536
    /\ mag[1] = high * 60 + low \div 65536

PlacesIn(list, subkey) ==
    {k \in 1..Len(list) : list[k].guid = subkey.NetCfgInstanceId}

HasAddress(subkey) ==
    ipv4_info(subkey.iface4_key).ip # <<>> \/ ipv6_info(subkey.iface6_key).ip # {}

\* C26: every adapter of the class key is in exactly one of the two lists,
\* once: in the active list when its IPv4 or its IPv6 address list is not
\* empty, and in the inactive list otherwise.
C26_AdapterInExactlyOneList ==
    pc = "interfaces_done" =>
        \A i \in 1..Len(input.subkeys) :
            input.subkeys[i].NetCfgInstanceId # Absent =>
                /\ Cardinality(PlacesIn(output.active_interfaces, input.subkeys[i]))
                       = IF HasAddress(input.subkeys[i]) THEN 1 ELSE 0
                /\ Cardinality(PlacesIn(output.inactive_interfaces, input.subkeys[i]))
                       = IF HasAddress(input.subkeys[i]) THEN 0 ELSE 1

====
